---------------------------- MODULE Spec2Model ----------------------------
(***************************************************************************)
(* Session-scoped real-time message relay of server/routes.ts: the         *)
(* WebSocket server that tracks live connections per conversation session, *)
(* routes join / speech / continuous / ping frames, and reaps dead          *)
(* connections.                                                             *)
(*                                                                         *)
(* Node runs every handler body to its first await without interruption,   *)
(* so one action of the model is one synchronous section of the code: the  *)
(* section of ws.on('message') up to its first await, each continuation    *)
(* after an await, the close handler, the error handler, one firing of a   *)
(* timer.  Time is the value of Date.now() in milliseconds.                *)
(*                                                                         *)
(* The client side of the protocol, the useWebSocket hook with its queue   *)
(* of pending outbound messages and its reconnection, is modelled by its   *)
(* own variables and actions (ClientSpec).                                 *)
(***************************************************************************)
EXTENDS Integers, Sequences, FiniteSets, TLC

(***************************************************************************)
(* Bounds of the model.                                                    *)
(***************************************************************************)
NumConns == 2          \* WebSocket objects the server ever accepts
RelayMaxRequests == 3  \* frames handled in one behaviour of RelaySpec
MaxRequests == 2       \* frames handled in one behaviour of Spec
MaxTicks == 1          \* steps of the clock in one behaviour of Spec
TimedMaxRequests == 1  \* frames handled in one behaviour of TimedSpec
OrderMaxRequests == 4  \* frames handled in one behaviour of OrderSpec
                       \* and of RejoinSpec
NumSockets == 2        \* WebSocket objects the client holds at one time
MaxPending == 7        \* messages the client's queue holds in ClientSpec
MaxLost == 1           \* reconnect timers pending that the client lost track of
TimedMaxTicks == 6     \* steps of the clock in one behaviour of TimedSpec

(***************************************************************************)
(* Program constants.                                                      *)
(***************************************************************************)
INACTIVE_TIMEOUT == 300000
SweepPeriod == 60000
PingPeriod == 30000
maxReconnectAttempts == 5   \* the client gives up reconnecting after these
maxSendAttempts == 3        \* sends of one queued message
DropThreshold == 5          \* queue length above which 'interim' is dropped
\* TimedSpec: the clock advances in steps of one sweep period, so that every
\* sweep of the reaper is an instant of the model
FineStep == SweepPeriod
\* Spec: the clock advances in steps longer than the inactivity window; the
\* timer firings that fall inside a step are not instants of the model
CoarseStep == INACTIVE_TIMEOUT + SweepPeriod

Conns == 1..NumConns
SessionIds == {"s1", "s2"}
NoSession == "null"            \* clientSessionId before a successful join

(***************************************************************************)
(* JavaScript values of the fields of a parsed frame: a type tag and the   *)
(* value written as a string.                                              *)
(***************************************************************************)
Str(s) == <<"string", s>>
Num(n) == <<"number", n>>
Undefined == <<"undefined", "">>

\* typeof v
TypeOf(v) == v[1]

\* !v  (undefined, "" and 0 are falsy)
Falsy(v) ==
    \/ v[1] = "undefined"
    \/ v[1] = "string" /\ v[2] = ""
    \/ v[1] = "number" /\ v[2] = "0"

VARIABLES
    readyState,        \* ws.readyState of each WebSocket object
    clients,           \* wss.clients
    sessions,          \* Map<string, Set<WebSocket>>
    lastActivity,      \* Map<WebSocket, number>
    clientSessionId,   \* the closure variable of each connection
    pingInterval,      \* per connection: is its ping timer scheduled
    nextPing,          \* per connection: when its ping timer fires next
    cleanupInterval,   \* is connectionCleanupInterval scheduled
    nextSweep,         \* when connectionCleanupInterval fires next
    now,               \* Date.now()
    reqs,              \* every frame handled so far, with the state of its handler
    inbox,             \* per connection: the events ws.send accepted, in order
    messages,          \* the rows of the messages table
    calls,             \* collaborator calls made: <<request, collaborator>>
    teardown,          \* per connection: how often each teardown path ran,
                       \* and whether the reaper closed it for inactivity
    limits,            \* the bounds of this behaviour
    sendFails,         \* the sockets on which ws.send throws
    serverClosed,      \* httpServer has emitted 'close'
    pinged,            \* the connections with a ping frame of the server
                       \* on its way, or its pong not yet back
    sock,              \* client: readyState of each WebSocket it created
    wsRef,             \* client: wsRef.current (0 is null)
    isConnected,       \* client: the isConnected state of the hook
    reconnectAttempts, \* client: reconnectAttemptsRef.current
    reconnectTimeout,  \* client: pending reconnect timers, the one that
                       \* reconnectTimeoutRef holds and those it lost
    connectionTimeout, \* client: per socket, is its 15 s timeout pending
    pendingMessages,   \* client: pendingMessagesRef.current
    called             \* client: the calls the last step of the hook made
                       \* of ws.send, for a submitted message, and of onError

\* the state of the useWebSocket hook of one client
clientVars == <<sock, wsRef, isConnected, reconnectAttempts, reconnectTimeout,
                connectionTimeout, pendingMessages, called>>

\* the state of the server
serverVars == <<readyState, clients, sessions, lastActivity, clientSessionId,
                pingInterval, nextPing, cleanupInterval, nextSweep, now, reqs,
                inbox, messages, calls, teardown, limits, sendFails,
                serverClosed, pinged>>

vars == <<readyState, clients, sessions, lastActivity, clientSessionId,
          pingInterval, nextPing, cleanupInterval, nextSweep, now, reqs,
          inbox, messages, calls, teardown, limits, sendFails, serverClosed,
          pinged, sock, wsRef,
          isConnected, reconnectAttempts, reconnectTimeout, connectionTimeout,
          pendingMessages, called>>


(***************************************************************************)
(* Map helpers (Map.set, Map.delete).                                      *)
(***************************************************************************)
EmptyMap == [x \in {} |-> {}]
MapSet(m, k, v) == [x \in DOMAIN m \cup {k} |-> IF x = k THEN v ELSE m[x]]
MapDelete(m, k) == [x \in DOMAIN m \ {k} |-> m[x]]

(***************************************************************************)
(* Frames.  A frame is the result of JSON.parse on the text of the frame:  *)
(* parsed is FALSE when JSON.parse throws, a field the frame does not      *)
(* carry is undefined.                                                     *)
(***************************************************************************)
BlankFrame ==
    [parsed |-> TRUE, type |-> Undefined, sessionId |-> Undefined,
     text |-> Undefined, speakerId |-> Undefined, language |-> Undefined,
     targetLanguage |-> Undefined, interimText |-> Undefined,
     finalSpeakerId |-> Undefined, targetLang |-> Undefined,
     timestamp |-> Undefined]

MalformedFrames ==
    {[BlankFrame EXCEPT !.parsed = FALSE], BlankFrame}

UnknownFrames == {[BlankFrame EXCEPT !.type = Str("leave")]}

JoinFrames ==
    {[BlankFrame EXCEPT !.type = Str("join"), !.sessionId = v] :
        v \in {Str(s) : s \in SessionIds} \cup {Str(""), Undefined, Num("7")}}

SpeechFrames ==
    {[BlankFrame EXCEPT !.type = Str("speech"), !.text = t, !.speakerId = k,
                        !.language = l, !.targetLanguage = g] :
        t \in {Str("hello"), Str("")},
        k \in {Num("1"), Str("1")},
        l \in {Str("en"), Undefined},
        g \in {Str("es"), Undefined}}

ContinuousFrames ==
    {[BlankFrame EXCEPT !.type = Str("continuous"), !.interimText = t,
                        !.finalSpeakerId = k, !.targetLang = g] :
        t \in {Str("hel"), Undefined},
        k \in {Num("2"), Str("2")},
        g \in {Str("es"), Undefined}}

PingFrames ==
    {[BlankFrame EXCEPT !.type = Str("ping"), !.timestamp = v] :
        v \in {Num("1000")}}

(***************************************************************************)
(* Outbound events and persisted rows.                                     *)
(***************************************************************************)
NoMessage ==
    [id |-> 0, sessionId |-> NoSession, speakerId |-> Undefined,
     originalText |-> Undefined, translatedText |-> Undefined,
     originalLanguage |-> Undefined, targetLanguage |-> Undefined, req |-> 0]

\* JSON.stringify({type, ...}) as handed to ws.send; req names the frame whose
\* handling sent it
Event(type, r, text, speakerId, message) ==
    [type |-> type, req |-> r, text |-> text, speakerId |-> speakerId,
     message |-> message]

ErrorEvent(r, text) == Event("error", r, Str(text), Undefined, NoMessage)

\* the members of a session and those of them that are open
Snapshot(sessionId) ==
    IF sessionId \in DOMAIN sessions
    THEN [members |-> sessions[sessionId],
          open |-> {c \in sessions[sessionId] : readyState[c] = "open"}]
    ELSE [members |-> {}, open |-> {}]

\* The record of a frame being handled: the connection, the type and (of a
\* frame that passed every check of its case) the fields of the parsed frame,
\* the value of clientSessionId when the frame arrived, whether it passed,
\* where its handler stands (pc: awaiting "detect", "translate" or "store",
\* "failed" in the inner catch, "done"), the locals
\* sourceLanguage and translation.translatedText, the session as it was
\* when the frame arrived and when its result was broadcast, and whether the
\* sender's socket was open when the handler ended, and the connections on
\* which a send made for the frame threw.
Request(ws, data, valid, pc) ==
    [ws |-> ws, type |-> data.type,
     data |-> IF valid THEN data ELSE BlankFrame,
     sessionId |-> clientSessionId[ws],
     valid |-> valid, pc |-> pc,
     sourceLanguage |-> IF valid THEN data.language ELSE Undefined,
     translatedText |-> Undefined,
     atRecv |-> Snapshot(clientSessionId[ws]),
     atSend |-> Snapshot(NoSession),
     senderOpen |-> TRUE,
     threw |-> {}]

(***************************************************************************)
(* safeWSend and broadcastToSession, as functions of the inboxes.  A send   *)
(* is attempted on an open socket only; when ws.send throws, safeWSend      *)
(* catches it and closes the socket.                                       *)
(***************************************************************************)
SafeWSend(ib, ws, data) ==
    IF readyState[ws] = "open" /\ ws \notin sendFails
    THEN [ib EXCEPT ![ws] = Append(@, data)]
    ELSE ib

\* the connections of T on which a send attempted now throws
Throwing(T) == {c \in T : readyState[c] = "open" /\ c \in sendFails}

\* readyState after safeWSend was called on each connection of T
SendClosed(T) ==
    [c \in Conns |-> IF c \in Throwing(T) THEN "closing" ELSE readyState[c]]

\* the connections broadcastToSession calls safeWSend on
Members(sessionId) ==
    IF sessionId \in DOMAIN sessions THEN sessions[sessionId] ELSE {}

\* a variant in which the first send that throws ends the broadcast
BroadcastAborts(ib, sessionId, data) ==
    IF Throwing(Members(sessionId)) # {}
    THEN ib
    ELSE [c \in Conns |->
            IF c \in Members(sessionId) THEN SafeWSend(ib, c, data)[c]
            ELSE ib[c]]

\* a variant that sends to every connection, member of the session or not
BroadcastToAll(ib, sessionId, data) ==
    [c \in Conns |-> SafeWSend(ib, c, data)[c]]

\* a variant that puts the payload in front of what the first socket holds
BroadcastOutOfOrder(ib, sessionId, data) ==
    IF sessionId \notin DOMAIN sessions
    THEN ib
    ELSE [c \in Conns |->
            IF c \in sessions[sessionId] /\ readyState[c] = "open"
            THEN (IF c = 1 THEN <<data>> \o ib[c] ELSE Append(ib[c], data))
            ELSE ib[c]]

\* a variant that sends to every connection that has joined some session
BroadcastToJoined(ib, sessionId, data) ==
    [c \in Conns |->
        IF clientSessionId[c] # NoSession /\ readyState[c] = "open"
        THEN SafeWSend(ib, c, data)[c]
        ELSE ib[c]]

BroadcastToSession(ib, sessionId, data) ==
    IF sessionId \notin DOMAIN sessions
    THEN ib
    ELSE [c \in Conns |->
            IF c \in sessions[sessionId] /\ readyState[c] = "open"
            THEN SafeWSend(ib, c, data)[c]
            ELSE ib[c]]

(***************************************************************************)
(* The state of the useWebSocket hook after it has mounted: the mount      *)
(* effect has called connect(), so the first socket is connecting and its  *)
(* connection timeout is pending; nothing is queued.                       *)
(***************************************************************************)
ClientSockets == 1..NumSockets

ClientInit ==
    /\ sock = [i \in ClientSockets |-> IF i = 1 THEN "connecting" ELSE "none"]
    /\ wsRef = 1
    /\ isConnected = FALSE
    /\ reconnectAttempts = 0
    /\ reconnectTimeout = [ref |-> FALSE, lost |-> 0]
    /\ connectionTimeout = [i \in ClientSockets |-> i = 1]
    /\ pendingMessages = <<>>
    /\ called = <<>>

(***************************************************************************)
(* The state after registerRoutes has run and before any connection.       *)
(***************************************************************************)
InitWith(maxRequests, maxTicks, step) ==
    /\ readyState = [c \in Conns |-> "none"]
    /\ clients = {}
    /\ sessions = EmptyMap
    /\ lastActivity = EmptyMap
    /\ clientSessionId = [c \in Conns |-> NoSession]
    /\ pingInterval = [c \in Conns |-> FALSE]
    /\ nextPing = [c \in Conns |-> 0]
    /\ cleanupInterval = TRUE
    /\ nextSweep = SweepPeriod
    /\ now = 0
    /\ reqs = <<>>
    /\ inbox = [c \in Conns |-> <<>>]
    /\ messages = <<>>
    /\ calls = {}
    /\ teardown = [c \in Conns |->
                     [close |-> 0, reaper |-> 0, timedOut |-> FALSE,
                      left |-> [s \in SessionIds |-> 0]]]
    /\ limits = [requests |-> maxRequests, ticks |-> maxTicks, step |-> step]
    /\ sendFails = {}
    /\ serverClosed = FALSE
    /\ pinged = {}
    /\ ClientInit

\* the relay with its timers, the clock in coarse steps
Init == InitWith(MaxRequests, MaxTicks, CoarseStep)

\* the relay with its timers, the clock in fine steps
InitTimed == InitWith(TimedMaxRequests, TimedMaxTicks, FineStep)

\* the relay at one instant
InitRelay == InitWith(RelayMaxRequests, 0, FineStep)

\* the relay at one instant, with room for two joins and two broadcasts
InitOrder == InitWith(OrderMaxRequests, 0, FineStep)

(***************************************************************************)
(* wss.on('connection'): a WebSocket object is accepted.                   *)
(***************************************************************************)
OnConnection(ws) ==
    /\ ~serverClosed
    /\ readyState[ws] = "none"
    /\ readyState' = [readyState EXCEPT ![ws] = "open"]
    /\ clients' = clients \cup {ws}
    /\ lastActivity' = MapSet(lastActivity, ws, now)
    /\ pingInterval' = [pingInterval EXCEPT ![ws] = TRUE]
    /\ nextPing' = [nextPing EXCEPT ![ws] = now + PingPeriod]
    /\ UNCHANGED <<sessions, clientSessionId, cleanupInterval, nextSweep, now,
                   reqs, inbox, messages, calls, teardown, limits, sendFails,
                   clientVars, serverClosed, pinged>>


(***************************************************************************)
(* ws.on('message'): the synchronous section of the handler, from the      *)
(* arrival of a frame to the handler's return or its first await.          *)
(***************************************************************************)
\* a variant that sends the error to the whole session of the sender
RejectToSession(ws, data, r, text) ==
    /\ inbox' = IF clientSessionId[ws] \in DOMAIN sessions
                THEN BroadcastToSession(inbox, clientSessionId[ws],
                                        ErrorEvent(r, text))
                ELSE SafeWSend(inbox, ws, ErrorEvent(r, text))
    /\ reqs' = Append(reqs, Request(ws, data, FALSE, "done"))
    /\ UNCHANGED <<readyState, sessions, clientSessionId, calls>>

\* a variant that also closes the connection of the sender
RejectAndClose(ws, data, r, text) ==
    /\ inbox' = SafeWSend(inbox, ws, ErrorEvent(r, text))
    /\ readyState' = [readyState EXCEPT ![ws] = "closing"]
    /\ reqs' = Append(reqs, Request(ws, data, FALSE, "done"))
    /\ UNCHANGED <<sessions, clientSessionId, calls>>

\* a variant whose error reply also forgets the session the sender joined
RejectAndUnjoin(ws, data, r, text) ==
    /\ inbox' = SafeWSend(inbox, ws, ErrorEvent(r, text))
    /\ readyState' = SendClosed({ws})
    /\ clientSessionId' = [clientSessionId EXCEPT ![ws] = NoSession]
    /\ reqs' = Append(reqs, [Request(ws, data, FALSE, "done") EXCEPT
                                !.threw = Throwing({ws})])
    /\ UNCHANGED <<sessions, calls>>

\* an error reply to the sender; nothing else changes
Reject(ws, data, r, text) ==
    /\ inbox' = SafeWSend(inbox, ws, ErrorEvent(r, text))
    /\ readyState' = SendClosed({ws})
    /\ reqs' = Append(reqs, [Request(ws, data, FALSE, "done") EXCEPT
                                !.threw = Throwing({ws})])
    /\ UNCHANGED <<sessions, clientSessionId, calls>>

\* a variant that sets a new Set for the id whether or not it has one
JoinSessionFresh(m, sessionId, ws) == MapSet(m, sessionId, {ws})

\* a variant that takes the connection out of every other session
JoinSessionMoves(m, sessionId, ws) ==
    [s \in DOMAIN m \cup {sessionId} |->
        IF s = sessionId
        THEN (IF s \in DOMAIN m THEN m[s] ELSE {}) \cup {ws}
        ELSE m[s] \ {ws}]

\* sessions after: if (!sessions.has(id)) sessions.set(id, new Set());
\*                 sessions.get(id).add(ws)
JoinSession(m, sessionId, ws) ==
    MapSet(m, sessionId,
           (IF sessionId \in DOMAIN m THEN m[sessionId] ELSE {}) \cup {ws})

\* a variant that takes whatever sessionId the frame carries
JoinUnchecked(ws, data, r) ==
    LET sessionId == data.sessionId[2] IN
    /\ clientSessionId' = [clientSessionId EXCEPT ![ws] = sessionId]
    /\ sessions' = JoinSession(sessions, sessionId, ws)
    /\ inbox' = SafeWSend(inbox, ws,
                    Event("join", r, Str(sessionId), Undefined, NoMessage))
    /\ readyState' = SendClosed({ws})
    /\ reqs' = Append(reqs, [Request(ws, data, TRUE, "done") EXCEPT
                                !.threw = Throwing({ws})])
    /\ UNCHANGED calls

Join(ws, data, r) ==
    IF Falsy(data.sessionId) \/ TypeOf(data.sessionId) # "string"
    THEN Reject(ws, data, r, "Invalid session ID")
    ELSE LET sessionId == data.sessionId[2] IN
         /\ clientSessionId' = [clientSessionId EXCEPT ![ws] = sessionId]
         /\ sessions' = JoinSession(sessions, sessionId, ws)
         /\ inbox' = SafeWSend(inbox, ws,
                         Event("join", r, Str(sessionId), Undefined, NoMessage))
         /\ readyState' = SendClosed({ws})
         /\ reqs' = Append(reqs, [Request(ws, data, TRUE, "done") EXCEPT
                                     !.threw = Throwing({ws})])
         /\ UNCHANGED calls

\* the validation of a 'speech' frame
SpeechInvalid(data) ==
    \/ Falsy(data.text)
    \/ TypeOf(data.speakerId) # "number"
    \/ Falsy(data.targetLanguage)

\* a variant without the not-joined check of the 'speech' case
SpeechUnchecked(ws, data, r) ==
    IF SpeechInvalid(data)
    THEN Reject(ws, data, r, "Missing required fields for speech message")
    ELSE LET first == IF Falsy(data.language) THEN "detect" ELSE "translate" IN
         /\ reqs' = Append(reqs, Request(ws, data, TRUE, first))
         /\ calls' = calls \cup {<<r, first>>}
         /\ UNCHANGED <<readyState, sessions, clientSessionId, inbox>>

Speech(ws, data, r) ==
    IF clientSessionId[ws] = NoSession
    THEN Reject(ws, data, r, "Not joined to a session")
    ELSE IF SpeechInvalid(data)
    THEN Reject(ws, data, r, "Missing required fields for speech message")
    ELSE LET first == IF Falsy(data.language) THEN "detect" ELSE "translate" IN
         /\ reqs' = Append(reqs, Request(ws, data, TRUE, first))
         /\ calls' = calls \cup {<<r, first>>}
         /\ UNCHANGED <<readyState, sessions, clientSessionId, inbox>>

\* the validation of a 'continuous' frame
ContinuousInvalid(data) ==
    \/ Falsy(data.interimText)
    \/ TypeOf(data.finalSpeakerId) # "number"
    \/ Falsy(data.targetLang)

\* a variant that also hands the interim text to the storage collaborator
ContinuousStored(ws, data, r) ==
    IF clientSessionId[ws] = NoSession
    THEN Reject(ws, data, r, "Not joined to a session")
    ELSE IF ContinuousInvalid(data)
    THEN Reject(ws, data, r, "Missing required fields for continuous message")
    ELSE /\ inbox' = BroadcastToSession(inbox, clientSessionId[ws],
                         Event("interim", r, data.interimText,
                               data.finalSpeakerId, NoMessage))
         /\ reqs' = Append(reqs,
                        [Request(ws, data, TRUE, "done") EXCEPT
                            !.atSend = Snapshot(clientSessionId[ws])])
         /\ calls' = calls \cup {<<r, "store">>}
         /\ UNCHANGED <<readyState, sessions, clientSessionId>>

Continuous(ws, data, r) ==
    IF clientSessionId[ws] = NoSession
    THEN Reject(ws, data, r, "Not joined to a session")
    ELSE IF ContinuousInvalid(data)
    THEN Reject(ws, data, r, "Missing required fields for continuous message")
    ELSE /\ inbox' = BroadcastToSession(inbox, clientSessionId[ws],
                         Event("interim", r, data.interimText,
                               data.finalSpeakerId, NoMessage))
         /\ readyState' = SendClosed(Members(clientSessionId[ws]))
         /\ reqs' = Append(reqs,
                        [Request(ws, data, TRUE, "done") EXCEPT
                            !.atSend = Snapshot(clientSessionId[ws]),
                            !.threw = Throwing(Members(clientSessionId[ws]))])
         /\ UNCHANGED <<sessions, clientSessionId, calls>>

\* a variant that answers the whole session of a joined sender
PingToSession(ws, data, r) ==
    /\ inbox' = IF clientSessionId[ws] \in DOMAIN sessions
                THEN BroadcastToSession(inbox, clientSessionId[ws],
                         Event("pong", r, data.timestamp, Undefined, NoMessage))
                ELSE SafeWSend(inbox, ws,
                         Event("pong", r, data.timestamp, Undefined, NoMessage))
    /\ reqs' = Append(reqs, Request(ws, data, TRUE, "done"))
    /\ UNCHANGED <<readyState, sessions, clientSessionId, calls>>

Ping(ws, data, r) ==
    /\ inbox' = SafeWSend(inbox, ws,
                    Event("pong", r, data.timestamp, Undefined, NoMessage))
    /\ readyState' = SendClosed({ws})
    /\ reqs' = Append(reqs, [Request(ws, data, TRUE, "done") EXCEPT
                                !.threw = Throwing({ws})])
    /\ UNCHANGED <<sessions, clientSessionId, calls>>

OnMessage(ws, data) ==
    LET r == Len(reqs) + 1 IN
    /\ readyState[ws] = "open"
    /\ Len(reqs) < limits.requests
    /\ lastActivity' = MapSet(lastActivity, ws, now)
    /\ IF ~data.parsed \/ Falsy(data.type)
       THEN Reject(ws, data, r, "Invalid message format")
       ELSE CASE data.type = Str("join") -> Join(ws, data, r)
              [] data.type = Str("speech") -> Speech(ws, data, r)
              [] data.type = Str("continuous") -> Continuous(ws, data, r)
              [] data.type = Str("ping") -> Ping(ws, data, r)
              [] OTHER -> Reject(ws, data, r, "Unknown message type")
    /\ UNCHANGED <<clients, pingInterval, nextPing, cleanupInterval, nextSweep,
                   now, messages, teardown, limits, sendFails,
                   clientVars, serverClosed, pinged>>

(***************************************************************************)
(* The continuations of the 'speech' case: the handler resumes after an    *)
(* awaited collaborator call has returned (ok) or raised.                  *)
(***************************************************************************)
\* a variant in which the inner and the outer catch both report the failure
SpeechFailedTwice(r) ==
    /\ inbox' = SafeWSend(SafeWSend(inbox, reqs[r].ws,
                              ErrorEvent(r, "Failed to process speech")),
                          reqs[r].ws, ErrorEvent(r, "Internal server error"))
    /\ readyState' = SendClosed({reqs[r].ws})
    /\ reqs' = [reqs EXCEPT ![r].pc = "failed",
                            ![r].senderOpen = (readyState[reqs[r].ws] = "open"),
                            ![r].threw = Throwing({reqs[r].ws})]
    /\ UNCHANGED <<messages, calls>>

\* a variant that logs the failure and tells nobody
SpeechFailedSilent(r) ==
    /\ reqs' = [reqs EXCEPT ![r].pc = "failed",
                            ![r].senderOpen = (readyState[reqs[r].ws] = "open")]
    /\ UNCHANGED <<readyState, inbox, messages, calls>>

\* the inner catch: an error reply to the connection that sent the frame
SpeechFailed(r) ==
    /\ inbox' = SafeWSend(inbox, reqs[r].ws,
                    ErrorEvent(r, "Failed to process speech"))
    /\ readyState' = SendClosed({reqs[r].ws})
    /\ reqs' = [reqs EXCEPT ![r].pc = "failed",
                            ![r].senderOpen = (readyState[reqs[r].ws] = "open"),
                            ![r].threw = Throwing({reqs[r].ws})]
    /\ UNCHANGED <<messages, calls>>

\* detection.language as the collaborator returns it
DetectedLanguage(text) == Str("en")

\* translation.translatedText as the collaborator returns it
TranslatedText(text, target) ==
    IF text = Str("hello") /\ target = Str("es")
    THEN Str("Spanish: hello (traducido)")
    ELSE Str("(translated)")

DetectDone(r, ok) ==
    /\ r \in DOMAIN reqs
    /\ reqs[r].pc = "detect"
    /\ IF ok
       THEN /\ reqs' = [reqs EXCEPT
                          ![r].sourceLanguage = DetectedLanguage(reqs[r].data.text),
                          ![r].pc = "translate"]
            /\ calls' = calls \cup {<<r, "translate">>}
            /\ UNCHANGED <<readyState, inbox, messages>>
       ELSE SpeechFailed(r)
    /\ UNCHANGED <<clients, sessions, lastActivity, clientSessionId,
                   pingInterval, nextPing, cleanupInterval, nextSweep, now,
                   teardown, limits, sendFails,
                   clientVars, serverClosed, pinged>>

TranslateDone(r, ok) ==
    /\ r \in DOMAIN reqs
    /\ reqs[r].pc = "translate"
    /\ IF ok
       THEN /\ reqs' = [reqs EXCEPT
                          ![r].translatedText =
                              TranslatedText(reqs[r].data.text,
                                             reqs[r].data.targetLanguage),
                          ![r].pc = "store"]
            /\ calls' = calls \cup {<<r, "store">>}
            /\ UNCHANGED <<readyState, inbox, messages>>
       ELSE SpeechFailed(r)
    /\ UNCHANGED <<clients, sessions, lastActivity, clientSessionId,
                   pingInterval, nextPing, cleanupInterval, nextSweep, now,
                   teardown, limits, sendFails,
                   clientVars, serverClosed, pinged>>

\* the row storage.createMessage returns for the message of request r
SavedMessage(r) ==
    [id |-> Len(messages) + 1,
     sessionId |-> reqs[r].sessionId,
     speakerId |-> reqs[r].data.speakerId,
     originalText |-> reqs[r].data.text,
     translatedText |-> reqs[r].translatedText,
     originalLanguage |-> reqs[r].sourceLanguage,
     targetLanguage |-> reqs[r].data.targetLanguage,
     req |-> r]

\* a variant that answers the sender instead of the session
ReplyTranslation(ib, r, savedMessage) ==
    SafeWSend(ib, reqs[r].ws,
        Event("translation", r, Undefined, Undefined, savedMessage))

\* a variant that sends to the members the session had when the frame arrived
BroadcastToArrivalMembers(ib, r, savedMessage) ==
    [c \in Conns |->
        IF c \in reqs[r].atRecv.open
        THEN SafeWSend(ib, c, Event("translation", r, Undefined, Undefined,
                                    savedMessage))[c]
        ELSE ib[c]]

\* a variant that broadcasts to the session the sender is joined to now
BroadcastToCurrentSession(ib, r, savedMessage) ==
    LET current == clientSessionId[reqs[r].ws] IN
    IF current \in DOMAIN sessions /\ sessions[current] # {}
    THEN BroadcastToSession(ib, current,
             Event("translation", r, Undefined, Undefined, savedMessage))
    ELSE ib

\* const clients = sessions.get(speechSessionId);
\* if (clients && clients.size > 0) broadcastToSession(...)
BroadcastTranslation(ib, r, savedMessage) ==
    LET speechSessionId == reqs[r].sessionId IN
    IF speechSessionId \in DOMAIN sessions /\ sessions[speechSessionId] # {}
    THEN BroadcastToSession(ib, speechSessionId,
             Event("translation", r, Undefined, Undefined, savedMessage))
    ELSE ib

\* a variant that drops a message equal to one already stored for the session
StoreDoneOnce(r, ok) ==
    /\ r \in DOMAIN reqs
    /\ reqs[r].pc = "store"
    /\ IF ok /\ \E i \in DOMAIN messages :
                    /\ messages[i].sessionId = reqs[r].sessionId
                    /\ messages[i].speakerId = reqs[r].data.speakerId
                    /\ messages[i].originalText = reqs[r].data.text
       THEN /\ reqs' = [reqs EXCEPT ![r].pc = "done"]
            /\ UNCHANGED <<messages, inbox, readyState, calls>>
       ELSE IF ok
       THEN /\ messages' = Append(messages, SavedMessage(r))
            /\ inbox' = BroadcastTranslation(inbox, r, SavedMessage(r))
            /\ readyState' = SendClosed(Members(reqs[r].sessionId))
            /\ reqs' = [reqs EXCEPT
                          ![r].pc = "done",
                          ![r].atSend = Snapshot(reqs[r].sessionId),
                          ![r].senderOpen = (readyState[reqs[r].ws] = "open"),
                          ![r].threw = Throwing(Members(reqs[r].sessionId))]
            /\ UNCHANGED calls
       ELSE SpeechFailed(r)
    /\ UNCHANGED <<clients, sessions, lastActivity, clientSessionId,
                   pingInterval, nextPing, cleanupInterval, nextSweep, now,
                   teardown, limits, sendFails, clientVars, serverClosed, pinged>>

StoreDone(r, ok) ==
    /\ r \in DOMAIN reqs
    /\ reqs[r].pc = "store"
    /\ IF ok
       THEN /\ messages' = Append(messages, SavedMessage(r))
            /\ inbox' = BroadcastTranslation(inbox, r, SavedMessage(r))
            /\ readyState' = SendClosed(Members(reqs[r].sessionId))
            /\ reqs' = [reqs EXCEPT
                          ![r].pc = "done",
                          ![r].atSend = Snapshot(reqs[r].sessionId),
                          ![r].senderOpen = (readyState[reqs[r].ws] = "open"),
                          ![r].threw = Throwing(Members(reqs[r].sessionId))]
            /\ UNCHANGED calls
       ELSE SpeechFailed(r)
    /\ UNCHANGED <<clients, sessions, lastActivity, clientSessionId,
                   pingInterval, nextPing, cleanupInterval, nextSweep, now,
                   teardown, limits, sendFails,
                   clientVars, serverClosed, pinged>>


(***************************************************************************)
(* ws.close() and ws.terminate() as they change readyState: an open socket *)
(* becomes closing, and its 'close' event follows as a later event.        *)
(***************************************************************************)
WsClose(rs, ws) == IF rs[ws] = "open" THEN [rs EXCEPT ![ws] = "closing"] ELSE rs

\* a capped counter of the teardown record
Bump(n) == IF n < 2 THEN n + 1 ELSE n

(***************************************************************************)
(* ws.on('close'): the close handler.  The ws library emits 'close' once,  *)
(* when the socket has closed (a close of the peer, the end of a close the *)
(* server began, or a terminate), and drops the socket from wss.clients.   *)
(***************************************************************************)
\* a variant that keeps the entry of a session it has emptied
LeaveSessionKeepsEntry(m, sessionId, ws) ==
    IF sessionId # NoSession /\ sessionId \in DOMAIN m
    THEN MapSet(m, sessionId, m[sessionId] \ {ws})
    ELSE m

\* a variant that leaves the member sets alone
LeaveSessionSkipped(m, sessionId, ws) == m

\* sessions after the handler's removal of ws from the session it joined last
LeaveSession(m, sessionId, ws) ==
    IF sessionId # NoSession /\ sessionId \in DOMAIN m
    THEN IF m[sessionId] \ {ws} = {}
         THEN MapDelete(m, sessionId)
         ELSE MapSet(m, sessionId, m[sessionId] \ {ws})
    ELSE m

\* The teardown record of ws after a step that takes the member sets from m
\* to n: for each session, how often its member set has lost ws.
Left(t, m, n, ws) ==
    [s \in SessionIds |->
        IF s \in DOMAIN m /\ ws \in m[s] /\ (s \notin DOMAIN n \/ ws \notin n[s])
        THEN t.left[s] + 1
        ELSE t.left[s]]

OnClose(ws) ==
    /\ readyState[ws] \in {"open", "closing"}
    /\ readyState' = [readyState EXCEPT ![ws] = "closed"]
    /\ clients' = clients \ {ws}
    /\ pingInterval' = [pingInterval EXCEPT ![ws] = FALSE]
    /\ lastActivity' = MapDelete(lastActivity, ws)
    /\ sessions' = LeaveSession(sessions, clientSessionId[ws], ws)
    /\ teardown' = [teardown EXCEPT
                      ![ws].close = Bump(@),
                      ![ws].left = Left(teardown[ws], sessions, sessions', ws)]
    /\ UNCHANGED <<clientSessionId, nextPing, cleanupInterval, nextSweep, now,
                   reqs, inbox, messages, calls, limits, sendFails,
                   clientVars, serverClosed, pinged>>

(***************************************************************************)
(* ws.on('error'): ws.close(1011, ...).                                    *)
(***************************************************************************)
OnError(ws) ==
    /\ readyState[ws] = "open"
    /\ readyState' = WsClose(readyState, ws)
    /\ UNCHANGED <<clients, sessions, lastActivity, clientSessionId,
                   pingInterval, nextPing, cleanupInterval, nextSweep, now,
                   reqs, inbox, messages, calls, teardown, limits, sendFails,
                   clientVars, serverClosed, pinged>>

(***************************************************************************)
(* ws.on('pong'): the peer's reply to a ping, or a pong it sent unasked.    *)
(***************************************************************************)
\* a variant that takes the pong and leaves the record as it is
OnPongIgnored(ws) ==
    /\ readyState[ws] = "open"
    /\ pinged' = pinged \ {ws}
    /\ UNCHANGED <<readyState, clients, sessions, lastActivity,
                   clientSessionId,
                   pingInterval, nextPing, cleanupInterval, nextSweep, now,
                   reqs, inbox, messages, calls, teardown, limits, sendFails,
                   clientVars, serverClosed>>

\* a variant that drops the record instead of refreshing it
OnPongForgets(ws) ==
    /\ readyState[ws] = "open"
    /\ lastActivity' = MapDelete(lastActivity, ws)
    /\ pinged' = pinged \ {ws}
    /\ UNCHANGED <<readyState, clients, sessions, clientSessionId,
                   pingInterval, nextPing, cleanupInterval, nextSweep, now,
                   reqs, inbox, messages, calls, teardown, limits, sendFails,
                   clientVars, serverClosed>>

OnPong(ws) ==
    /\ readyState[ws] = "open"
    /\ lastActivity' = MapSet(lastActivity, ws, now)
    /\ pinged' = pinged \ {ws}
    /\ UNCHANGED <<readyState, clients, sessions, clientSessionId,
                   pingInterval, nextPing, cleanupInterval, nextSweep, now,
                   reqs, inbox, messages, calls, teardown, limits, sendFails,
                   clientVars, serverClosed>>

(***************************************************************************)
(* pingInterval: one firing of a connection's ping timer.                  *)
(***************************************************************************)
PingTimer(ws) ==
    /\ pingInterval[ws]
    /\ now >= nextPing[ws]
    /\ nextPing' = [nextPing EXCEPT ![ws] = now + PingPeriod]
    /\ pingInterval' = [pingInterval EXCEPT ![ws] = (readyState[ws] = "open")]
    /\ pinged' = IF readyState[ws] = "open" THEN pinged \cup {ws} ELSE pinged
    /\ UNCHANGED <<readyState, clients, sessions, lastActivity, clientSessionId,
                   cleanupInterval, nextSweep, now, reqs, inbox, messages,
                   calls, teardown, limits, sendFails,
                   clientVars, serverClosed>>

(***************************************************************************)
(* connectionCleanupInterval: one sweep of the reaper.                     *)
(***************************************************************************)
\* a variant that subtracts the wrong way round
InactiveSwapped ==
    {ws \in DOMAIN lastActivity : lastActivity[ws] - now > INACTIVE_TIMEOUT}

\* the connections the first loop closes for inactivity
Inactive ==
    {ws \in DOMAIN lastActivity : now - lastActivity[ws] > INACTIVE_TIMEOUT}

\* readyState after the first loop
AfterInactiveClose ==
    [c \in Conns |->
        IF c \in Inactive THEN WsClose(readyState, c)[c] ELSE readyState[c]]

\* a variant that only looks for a missing record
BrokenUnrecorded == {client \in clients : client \notin DOMAIN lastActivity}

\* the connections the second loop terminates and removes
Broken ==
    {client \in clients :
        \/ AfterInactiveClose[client] \notin {"open", "connecting"}
        \/ client \notin DOMAIN lastActivity}

\* sessions after the second loop has removed the connections of B from every
\* member set and deleted the entries it emptied
RemoveFromSessions(m, B) ==
    [s \in {x \in DOMAIN m : m[x] \cap B = {} \/ m[x] \ B # {}} |-> m[s] \ B]

Sweep ==
    /\ cleanupInterval
    /\ now >= nextSweep
    /\ nextSweep' = now + SweepPeriod
    /\ readyState' = [c \in Conns |->
                        IF c \in Broken
                        THEN WsClose(AfterInactiveClose, c)[c]
                        ELSE AfterInactiveClose[c]]
    /\ lastActivity' = [c \in DOMAIN lastActivity \ Broken |-> lastActivity[c]]
    /\ sessions' = RemoveFromSessions(sessions, Broken)
    /\ teardown' = [c \in Conns |->
                      IF c \in Broken
                      THEN [teardown[c] EXCEPT
                              !.reaper = Bump(@),
                              !.timedOut = @ \/ (c \in Inactive
                                                 /\ readyState[c] = "open"),
                              !.left = Left(teardown[c], sessions, sessions', c)]
                      ELSE [teardown[c] EXCEPT
                              !.timedOut = @ \/ (c \in Inactive
                                                 /\ readyState[c] = "open")]]
    /\ UNCHANGED <<clients, clientSessionId, pingInterval, nextPing,
                   cleanupInterval, now, reqs, inbox, messages, calls, limits, sendFails,
                   clientVars, serverClosed, pinged>>

(***************************************************************************)
(* The clock: time passes when no timer is due.                            *)
(***************************************************************************)
Tick ==
    /\ now < limits.ticks * limits.step
    /\ cleanupInterval => now < nextSweep
    /\ \A c \in Conns : pingInterval[c] => now < nextPing[c]
    /\ now' = now + limits.step
    /\ UNCHANGED <<readyState, clients, sessions, lastActivity, clientSessionId,
                   pingInterval, nextPing, cleanupInterval, nextSweep, reqs,
                   inbox, messages, calls, teardown, limits, sendFails,
                   clientVars, serverClosed, pinged>>

(***************************************************************************)
(* The socket of a connection goes bad while its readyState is still OPEN: *)
(* from now on ws.send on it throws.                                       *)
(***************************************************************************)
Break(ws) ==
    /\ readyState[ws] = "open"
    /\ ws \notin sendFails
    /\ sendFails' = sendFails \cup {ws}
    /\ UNCHANGED <<readyState, clients, sessions, lastActivity, clientSessionId,
                   pingInterval, nextPing, cleanupInterval, nextSweep, now,
                   reqs, inbox, messages, calls, teardown, limits, clientVars, serverClosed, pinged>>

Frames ==
    MalformedFrames \cup UnknownFrames \cup JoinFrames \cup SpeechFrames
        \cup ContinuousFrames \cup PingFrames

\* the frames of clients that keep to the protocol: a join, a speech frame
\* that leaves the language to the server, an interim transcript
WellFormedFrames ==
    {f \in JoinFrames : f.sessionId = Str("s1")}
    \cup {f \in SpeechFrames :
            /\ f.text = Str("hello") /\ f.speakerId = Num("1")
            /\ f.language = Undefined /\ f.targetLanguage = Str("es")}
    \cup {f \in ContinuousFrames :
            /\ f.interimText = Str("hel") /\ f.finalSpeakerId = Num("2")
            /\ f.targetLang = Str("es")}

MaxReq == RelayMaxRequests + MaxRequests + TimedMaxRequests

\* the events of the sockets
Sockets ==
    \/ \E ws \in Conns : OnConnection(ws)
    \/ \E ws \in Conns, data \in Frames : OnMessage(ws, data)
    \/ \E ws \in Conns : OnClose(ws)
    \/ \E ws \in Conns : OnError(ws)

\* the continuations of the awaits of a 'speech' frame
Continuations ==
    \/ \E r \in 1..MaxReq, ok \in BOOLEAN : DetectDone(r, ok)
    \/ \E r \in 1..MaxReq, ok \in BOOLEAN : TranslateDone(r, ok)
    \/ \E r \in 1..MaxReq, ok \in BOOLEAN : StoreDone(r, ok)

\* the frames, their continuations and the events of the sockets
Relay == Sockets \/ Continuations

(***************************************************************************)
(* httpServer.on('close'): the server has stopped listening and the socket *)
(* of every connection has been destroyed.  Node emits the event from the  *)
(* destruction of the last socket, ahead of that socket's own 'close', so  *)
(* the close handler of a connection that is closing may still be to run.  *)
(***************************************************************************)
ServerClose ==
    /\ ~serverClosed
    /\ \A c \in Conns : readyState[c] # "open"
    /\ serverClosed' = TRUE
    /\ cleanupInterval' = FALSE
    /\ UNCHANGED <<readyState, clients, sessions, lastActivity, clientSessionId,
                   pingInterval, nextPing, nextSweep, now, reqs, inbox,
                   messages, calls, teardown, limits, sendFails, clientVars,
                   pinged>>

\* the timers, the pongs they cause, and the clock
Timers ==
    \/ \E ws \in Conns : OnPong(ws)
    \/ \E ws \in Conns : PingTimer(ws)
    \/ Sweep
    \/ Tick

Next == Relay \/ Timers \/ ServerClose

Spec == Init /\ [][Next]_vars

\* The liveness tracking and the reaper over several sweeps.  Its one frame
\* per run is the first of its connection, so no 'speech' frame gets past the
\* not-joined check and no continuation is ever pending.
TimedNext == Sockets \/ Timers

TimedSpec == InitTimed /\ [][TimedNext]_vars

\* The same over connections that are all accepted when the clock starts,
\* so that at the last sweep each of them is older than INACTIVE_TIMEOUT.
KeepAliveNext ==
    \/ \E ws \in Conns : now = 0 /\ OnConnection(ws)
    \/ \E ws \in Conns, data \in Frames : OnMessage(ws, data)
    \/ \E ws \in Conns : OnClose(ws)
    \/ \E ws \in Conns : OnError(ws)
    \/ Timers

KeepAliveSpec == InitTimed /\ [][KeepAliveNext]_vars

RelaySpec == InitRelay /\ [][Relay]_vars

\* the relay at one instant, with sockets on which sends come to throw
FaultNext == Relay \/ \E ws \in Conns : Break(ws)

FaultSpec == InitRelay /\ [][FaultNext]_vars

\* the frames of clients that move between the two sessions and speak
RejoinFrames ==
    {f \in JoinFrames : f.sessionId \in {Str(s) : s \in SessionIds}}
    \cup {f \in SpeechFrames :
            /\ f.text = Str("hello") /\ f.speakerId = Num("1")
            /\ f.language = Str("en") /\ f.targetLanguage = Str("es")}

\* four frames of such clients; their speech frames name the language, so
\* no detect call is made
RejoinNext ==
    \/ \E ws \in Conns : OnConnection(ws)
    \/ \E ws \in Conns, data \in RejoinFrames : OnMessage(ws, data)
    \/ \E ws \in Conns : OnClose(ws)
    \/ \E ws \in Conns : OnError(ws)
    \/ \E r \in 1..MaxReq, ok \in BOOLEAN : TranslateDone(r, ok)
    \/ \E r \in 1..MaxReq, ok \in BOOLEAN : StoreDone(r, ok)

RejoinSpec == InitOrder /\ [][RejoinNext]_vars

(***************************************************************************)
(* The client: the useWebSocket hook.  One action is one run of a callback *)
(* of the hook: a call of sendSpeech or sendContinuousSpeech, one firing   *)
(* of the queue processor, of a reconnect timer or of a connection         *)
(* timeout, the open or the close event of a socket.                       *)
(***************************************************************************)
\* the server side is left alone
InitClient == InitWith(0, 0, FineStep)

\* wsRef.current && wsRef.current.readyState === WebSocket.OPEN
SocketOpen == wsRef # 0 /\ sock[wsRef] = "open"

\* readyState after ws.close()
CloseOf(s) == IF s \in {"connecting", "open"} THEN "closing" ELSE s

\* the sockets after: if (wsRef.current) wsRef.current.close()
PreviousClosed == IF wsRef # 0 THEN [sock EXCEPT ![wsRef] = CloseOf(@)] ELSE sock

\* a WebSocket object that no event and no timer will mention again
Free(sk, i) == sk[i] = "none" \/ (sk[i] = "closed" /\ ~connectionTimeout[i])

\* the object that new WebSocket(wsUrl) returns
NewSocket ==
    CHOOSE i \in ClientSockets :
        /\ Free(PreviousClosed, i)
        /\ \A j \in ClientSockets : Free(PreviousClosed, j) => i <= j

\* connect(), called with the reconnect timers rt: the previous socket is
\* closed, the timer that reconnectTimeoutRef holds is cleared, a connection
\* timeout is set and a new socket becomes wsRef.current
Connect(rt) ==
    /\ \E i \in ClientSockets : Free(PreviousClosed, i)
    /\ sock' = [PreviousClosed EXCEPT ![NewSocket] = "connecting"]
    /\ wsRef' = NewSocket
    /\ reconnectTimeout' = [rt EXCEPT !.ref = FALSE]
    /\ connectionTimeout' = [connectionTimeout EXCEPT ![NewSocket] = TRUE]

\* reconnectTimeoutRef.current = setTimeout(...), if attempts are left: the
\* timer the ref held before, if any, stays pending
ScheduleReconnect(rt) ==
    IF reconnectAttempts < maxReconnectAttempts
    THEN [ref |-> TRUE, lost |-> rt.lost + (IF rt.ref THEN 1 ELSE 0)]
    ELSE rt

\* wsRef.current.send(JSON.stringify(message)), called by the function by
Send(by, message, ok) ==
    [by |-> by, fn |-> "send", arg |-> message, ok |-> ok]

\* onError?.(new Error(text)), called by the function by
OnErrorCall(by, text) == [by |-> by, fn |-> "onError", arg |-> text, ok |-> TRUE]

\* sendMessage(message); ok: ws.send returns, ~ok: it throws
SendMessage(message, ok) ==
    /\ ok \/ SocketOpen
    /\ called' = IF SocketOpen THEN <<Send("sendMessage", message, ok)>>
                 ELSE <<>>
    /\ IF SocketOpen /\ ok
       THEN UNCHANGED <<sock, wsRef, isConnected, reconnectAttempts,
                        reconnectTimeout, connectionTimeout, pendingMessages>>
       ELSE IF message = "interim" /\ Len(pendingMessages) > DropThreshold
       THEN UNCHANGED <<sock, wsRef, isConnected, reconnectAttempts,
                        reconnectTimeout, connectionTimeout, pendingMessages>>
       ELSE /\ Len(pendingMessages) < MaxPending
            /\ pendingMessages' =
                  Append(pendingMessages, [message |-> message, attempts |-> 0])
            /\ IF ~isConnected
               THEN Connect(reconnectTimeout)
               ELSE UNCHANGED <<sock, wsRef, reconnectTimeout,
                                connectionTimeout>>
            /\ UNCHANGED <<isConnected, reconnectAttempts>>
    /\ UNCHANGED serverVars

SendSpeech(ok) == SendMessage("speech", ok)

SendContinuousSpeech(ok) == SendMessage("continuous", ok)

\* a variant that keeps a message in the queue however often its send failed
ProcessMessagesKeeps(ok) ==
    /\ SocketOpen
    /\ pendingMessages # <<>>
    /\ pendingMessages[1].attempts < maxSendAttempts + 1
    /\ pendingMessages' =
          IF ok
          THEN Tail(pendingMessages)
          ELSE [pendingMessages EXCEPT ![1].attempts = @ + 1]
    /\ called' = <<Send("processMessages", pendingMessages[1].message, ok)>>
    /\ UNCHANGED <<sock, wsRef, isConnected, reconnectAttempts,
                   reconnectTimeout, connectionTimeout>>
    /\ UNCHANGED serverVars

\* processMessages, when it finds the socket open and a message queued (it
\* does nothing otherwise); ok: ws.send returns, ~ok: it throws
ProcessMessages(ok) ==
    /\ SocketOpen
    /\ pendingMessages # <<>>
    /\ pendingMessages' =
          IF ok \/ pendingMessages[1].attempts + 1 >= maxSendAttempts
          THEN Tail(pendingMessages)
          ELSE [pendingMessages EXCEPT ![1].attempts = @ + 1]
    /\ called' =
          <<Send("processMessages", pendingMessages[1].message, ok)>>
          \o IF ~ok /\ pendingMessages[1].attempts + 1 >= maxSendAttempts
             THEN <<OnErrorCall("processMessages",
                        "Failed to send message after multiple attempts")>>
             ELSE <<>>
    /\ UNCHANGED <<sock, wsRef, isConnected, reconnectAttempts,
                   reconnectTimeout, connectionTimeout>>
    /\ UNCHANGED serverVars

\* ws.onopen of socket i
WsOnOpen(i) ==
    /\ sock[i] = "connecting"
    /\ sock' = [sock EXCEPT ![i] = "open"]
    /\ connectionTimeout' = [connectionTimeout EXCEPT ![i] = FALSE]
    /\ reconnectAttempts' = 0
    /\ isConnected' = TRUE
    /\ called' = <<>>
    /\ UNCHANGED <<wsRef, reconnectTimeout, pendingMessages>>
    /\ UNCHANGED serverVars

\* ws.onclose of socket i
WsOnClose(i) ==
    /\ sock[i] \in {"connecting", "open", "closing"}
    /\ sock' = [sock EXCEPT ![i] = "closed"]
    /\ isConnected' = FALSE
    /\ reconnectTimeout' = ScheduleReconnect(reconnectTimeout)
    /\ reconnectTimeout'.lost <= MaxLost
    /\ called' = IF reconnectAttempts < maxReconnectAttempts THEN <<>>
                 ELSE <<OnErrorCall("onclose",
                   "Could not reconnect to the server after multiple attempts")>>
    /\ UNCHANGED <<wsRef, reconnectAttempts, connectionTimeout,
                   pendingMessages>>
    /\ UNCHANGED serverVars

\* a reconnect timer fires: the one reconnectTimeoutRef holds (held) or one
\* that it held before
ReconnectTimer(held) ==
    /\ IF held THEN reconnectTimeout.ref ELSE reconnectTimeout.lost > 0
    /\ reconnectAttempts' = reconnectAttempts + 1
    /\ Connect(IF held THEN [reconnectTimeout EXCEPT !.ref = FALSE]
                       ELSE [reconnectTimeout EXCEPT !.lost = @ - 1])
    /\ called' = <<>>
    /\ UNCHANGED <<isConnected, pendingMessages>>
    /\ UNCHANGED serverVars

\* the connection timeout set by the connect() call that created socket i
ConnectionTimeout(i) ==
    /\ connectionTimeout[i]
    /\ connectionTimeout' = [connectionTimeout EXCEPT ![i] = FALSE]
    /\ IF wsRef # 0 /\ sock[wsRef] # "open"
       THEN /\ sock' = PreviousClosed
            /\ wsRef' = 0
            /\ reconnectTimeout' = ScheduleReconnect(reconnectTimeout)
            /\ reconnectTimeout'.lost <= MaxLost
            /\ called' = IF reconnectAttempts < maxReconnectAttempts
                         THEN <<>>
                         ELSE <<OnErrorCall("connectionTimeout",
                                "Connection timed out after multiple attempts")>>
       ELSE /\ called' = <<>>
            /\ UNCHANGED <<sock, wsRef, reconnectTimeout>>
    /\ UNCHANGED <<isConnected, reconnectAttempts, pendingMessages>>
    /\ UNCHANGED serverVars

ClientNext ==
    \/ \E ok \in BOOLEAN : SendSpeech(ok)
    \/ \E ok \in BOOLEAN : SendContinuousSpeech(ok)
    \/ \E ok \in BOOLEAN : ProcessMessages(ok)
    \/ \E i \in ClientSockets : WsOnOpen(i)
    \/ \E i \in ClientSockets : WsOnClose(i)
    \/ \E held \in BOOLEAN : ReconnectTimer(held)
    \/ \E i \in ClientSockets : ConnectionTimeout(i)

ClientSpec == InitClient /\ [][ClientNext]_vars

\* four frames of clients that keep to the protocol
OrderNext ==
    \/ \E ws \in Conns : OnConnection(ws)
    \/ \E ws \in Conns, data \in WellFormedFrames : OnMessage(ws, data)
    \/ \E ws \in Conns : OnClose(ws)
    \/ \E ws \in Conns : OnError(ws)
    \/ Continuations

OrderSpec == InitOrder /\ [][OrderNext]_vars


(***************************************************************************)
(* What the claims speak of.                                               *)
(***************************************************************************)
\* the events delivered to connection c on account of frame r, in order
EventsOf(c, r) == SelectSeq(inbox[c], LAMBDA e : e.req = r)

\* the rows persisted on account of frame r
RowsOf(r) == {i \in DOMAIN messages : messages[i].req = r}

\* the collaborators called on account of frame r
CallsOf(r) == {k \in {"detect", "translate", "store"} : <<r, k>> \in calls}

\* frame r was a 'speech' (a 'continuous', a 'join') frame
IsSpeech(r) == reqs[r].type = Str("speech")
IsContinuous(r) == reqs[r].type = Str("continuous")
IsJoin(r) == reqs[r].type = Str("join")

\* the 'translation' event of frame r, whose row is messages[i]
TranslationEvent(r, i) ==
    Event("translation", r, Undefined, Undefined, messages[i])

\* The session of frame r consisted of open connections when the frame
\* arrived and was the same set of open connections at the broadcast.
StableSession(r) ==
    /\ reqs[r].atRecv.members = reqs[r].atRecv.open
    /\ reqs[r].atSend = reqs[r].atRecv

(***************************************************************************)
(* C1.  Broadcast fan-out: a valid speech event whose translate and store  *)
(* steps succeed, in a session of N open connections that is the same at   *)
(* the broadcast as at the arrival of the frame, delivers exactly one      *)
(* translation event to each of the N members, the sender included, and    *)
(* none to anyone else; all carry the one persisted row.                   *)
(***************************************************************************)
C1_FanOut ==
    \A r \in DOMAIN reqs :
        (IsSpeech(r) /\ reqs[r].valid /\ reqs[r].pc = "done" /\ StableSession(r))
        => /\ Cardinality(RowsOf(r)) = 1
           /\ reqs[r].ws \in reqs[r].atRecv.members
           /\ \A i \in RowsOf(r) : \A c \in Conns :
                EventsOf(c, r) = IF c \in reqs[r].atRecv.members
                                 THEN <<TranslationEvent(r, i)>>
                                 ELSE <<>>

\* a speech event has been fanned out to a stable session of two members
C1_Witness ==
    \E r \in DOMAIN reqs :
        /\ IsSpeech(r) /\ reqs[r].valid /\ reqs[r].pc = "done"
        /\ StableSession(r)
        /\ Cardinality(reqs[r].atRecv.members) >= 2

(***************************************************************************)
(* C2.  Sender-only error isolation: a speech event of a joined            *)
(* connection that fails validation delivers exactly one error event to    *)
(* the sender and nothing to anyone else; nothing is translated, detected  *)
(* or persisted for it.                                                    *)
(***************************************************************************)
C2_InvalidSpeechIsolated ==
    \A r \in DOMAIN reqs :
        (IsSpeech(r) /\ reqs[r].sessionId # NoSession /\ ~reqs[r].valid)
        => /\ EventsOf(reqs[r].ws, r) =
                <<ErrorEvent(r, "Missing required fields for speech message")>>
           /\ \A c \in Conns \ {reqs[r].ws} : EventsOf(c, r) = <<>>
           /\ CallsOf(r) = {}
           /\ RowsOf(r) = {}
           /\ reqs[r].pc = "done"

\* an invalid speech event was handled while another open connection was a
\* member of the sender's session
C2_Witness ==
    \E r \in DOMAIN reqs :
        /\ IsSpeech(r) /\ reqs[r].sessionId # NoSession /\ ~reqs[r].valid
        /\ reqs[r].atRecv.open \ {reqs[r].ws} # {}
        /\ reqs[r].ws \in reqs[r].atRecv.open

(***************************************************************************)
(* C3.  Empty-session cleanup: once the close handler has run for every    *)
(* connection that ever joined session s, the registry has no entry for s  *)
(* and no closed connection remains in any member set.                     *)
(***************************************************************************)
\* the connections that ever sent a valid join for session s
EverJoined(s) ==
    {reqs[r].ws : r \in {q \in DOMAIN reqs :
        IsJoin(q) /\ reqs[q].valid /\ reqs[q].data.sessionId = Str(s)}}

C3_SessionGoneAfterCloses ==
    \A s \in SessionIds :
        (EverJoined(s) # {} /\ \A c \in EverJoined(s) : teardown[c].close >= 1)
        => /\ s \notin DOMAIN sessions
           /\ \A t \in DOMAIN sessions : \A c \in sessions[t] :
                readyState[c] # "closed"

(***************************************************************************)
(* C4.  A session id is a key of the registry only with a non-empty member *)
(* set: no join, close or sweep leaves an entry whose member set is empty. *)
(***************************************************************************)
C4_NoEmptySession == \A s \in DOMAIN sessions : sessions[s] # {}

\* a member set has lost its last member and its entry is gone
C4_Witness ==
    \E c \in Conns, s \in SessionIds :
        teardown[c].left[s] > 0 /\ s \notin DOMAIN sessions

(***************************************************************************)
(* C5.  Join idempotence: a valid join for session s from a connection     *)
(* whose last join was for s too leaves the connection a member of s and   *)
(* the member count of s as it was after the first join.                   *)
(***************************************************************************)
\* this step handles a valid join for s from ws, which has joined s before
RepeatJoin(ws, s) ==
    /\ Len(reqs') = Len(reqs) + 1
    /\ reqs'[Len(reqs')].ws = ws
    /\ reqs'[Len(reqs')].type = Str("join")
    /\ reqs'[Len(reqs')].valid
    /\ reqs'[Len(reqs')].data.sessionId = Str(s)
    /\ clientSessionId[ws] = s

C5_JoinIdempotent ==
    [][\A ws \in Conns, s \in SessionIds :
          RepeatJoin(ws, s)
          => /\ s \in DOMAIN sessions
             /\ s \in DOMAIN sessions'
             /\ ws \in sessions'[s]
             /\ Cardinality(sessions'[s]) = Cardinality(sessions[s])]_vars

\* a connection has joined, a second time, a session that had two members
C5_Witness ==
    \E r1, r2 \in DOMAIN reqs :
        /\ r1 < r2
        /\ IsJoin(r1) /\ IsJoin(r2) /\ reqs[r1].valid /\ reqs[r2].valid
        /\ reqs[r1].ws = reqs[r2].ws
        /\ reqs[r1].data.sessionId = reqs[r2].data.sessionId
        /\ reqs[r2].data.sessionId = Str(reqs[r2].sessionId)
        /\ reqs[r2].ws \in reqs[r2].atRecv.members
        /\ Cardinality(reqs[r2].atRecv.members) >= 2

(***************************************************************************)
(* C6.  Per-connection ordering: the handling of a speech or continuous    *)
(* frame of a connection, its awaited calls included, has ended before the *)
(* handling of the next frame of that connection begins, and so the events *)
(* caused by one connection's frames reach every inbox in the order the    *)
(* frames arrived.                                                         *)
(***************************************************************************)
C6_SerialPerConnection ==
    /\ \A r1, r2 \in DOMAIN reqs :
          (r1 < r2 /\ reqs[r1].ws = reqs[r2].ws
                   /\ (IsSpeech(r1) \/ IsContinuous(r1)))
          => reqs[r1].pc \in {"done", "failed"}
    /\ \A c \in Conns : \A i, j \in DOMAIN inbox[c] :
          (i < j /\ reqs[inbox[c][i].req].ws = reqs[inbox[c][j].req].ws)
          => inbox[c][i].req <= inbox[c][j].req

(***************************************************************************)
(* C7.  Exactly-once teardown.  As claimed: for every connection the code  *)
(* that removes its liveness record and its session membership runs once,  *)
(* whichever of the close handler and the sweep of the reaper runs it.     *)
(***************************************************************************)
C7_TeardownOnce ==
    \A c \in Conns : teardown[c].close + teardown[c].reaper <= 1

(***************************************************************************)
(* C7, amended.  The close handler runs once per connection, and after it  *)
(* the connection has no liveness record and is no member of the session   *)
(* it joined last; a sweep that terminates the connection makes the same   *)
(* removals before the close handler runs, and no member set loses the     *)
(* same connection twice.                                                  *)
(***************************************************************************)
C7_TeardownAmended ==
    \A c \in Conns :
        /\ teardown[c].close <= 1
        /\ (readyState[c] = "closed") <=> (teardown[c].close = 1)
        /\ readyState[c] = "closed"
           => /\ c \notin DOMAIN lastActivity
              /\ clientSessionId[c] \in DOMAIN sessions
                 => c \notin sessions[clientSessionId[c]]
        /\ \A s \in SessionIds : teardown[c].left[s] <= 1

\* a sweep terminated a member of a session, and its close handler ran later
C7_Witness ==
    \E c \in Conns, s \in SessionIds :
        /\ teardown[c].reaper >= 1
        /\ teardown[c].close = 1
        /\ teardown[c].left[s] = 1

(***************************************************************************)
(* C8.  Dead-connection reclamation: after every sweep, no connection the  *)
(* server still tracks has a liveness record older than the inactivity     *)
(* window as of that sweep, every tracked member of a session has a        *)
(* liveness record, and a tracked connection without one is not open: a    *)
(* joined connection that has been silent for longer than the window is a  *)
(* member of no session after the first sweep that follows, and no         *)
(* broadcast sends to it.                                                  *)
(***************************************************************************)
\* when the reaper swept last (0 before its first sweep)
LastSweep == nextSweep - SweepPeriod

C8_IdleReaped ==
    /\ \A c \in DOMAIN lastActivity :
          LastSweep - lastActivity[c] <= INACTIVE_TIMEOUT
    /\ \A c \in clients :
          (\E s \in DOMAIN sessions : c \in sessions[s])
          => c \in DOMAIN lastActivity
    /\ \A c \in clients :
          c \notin DOMAIN lastActivity => readyState[c] # "open"

\* a joined connection went silent, the reaper closed it for inactivity and
\* took it out of its session, and its close event has not come yet
C8_Witness ==
    \E c \in clients :
        /\ clientSessionId[c] # NoSession
        /\ teardown[c].timedOut
        /\ teardown[c].left[clientSessionId[c]] = 1
        /\ teardown[c].close = 0
        /\ \A s \in DOMAIN sessions : c \notin sessions[s]

(***************************************************************************)
(* C9.  Continuous path purity: a continuous event, valid or not, causes   *)
(* no call of the storage, translate or detect collaborator, no persisted  *)
(* row and no translation event; a valid one delivers one interim event,   *)
(* carrying its finalSpeakerId and interimText, to each open member of the *)
(* sender's session and nothing to anyone else.                            *)
(***************************************************************************)
C9_ContinuousPure ==
    \A r \in DOMAIN reqs :
        IsContinuous(r)
        => /\ CallsOf(r) = {}
           /\ RowsOf(r) = {}
           /\ reqs[r].pc = "done"
           /\ \A c \in Conns : \A i \in DOMAIN EventsOf(c, r) :
                EventsOf(c, r)[i].type # "translation"
           /\ reqs[r].valid
              => \A c \in Conns :
                   EventsOf(c, r) =
                     IF c \in reqs[r].atSend.open
                     THEN <<Event("interim", r, reqs[r].data.interimText,
                                  reqs[r].data.finalSpeakerId, NoMessage)>>
                     ELSE <<>>

\* a valid continuous event was broadcast to a session of two open members
C9_Witness ==
    \E r \in DOMAIN reqs :
        /\ IsContinuous(r) /\ reqs[r].valid
        /\ Cardinality(reqs[r].atSend.open) >= 2

(***************************************************************************)
(* C10.  Collaborator failure: when the translate call or the storage      *)
(* write of a valid speech event raises, no connection is delivered a      *)
(* translation event for it, the sender (its socket still open) is         *)
(* delivered one error event and nobody else anything, and when it was the *)
(* translate call that raised no row is persisted.                         *)
(***************************************************************************)
C10_FailureIsolated ==
    \A r \in DOMAIN reqs :
        (IsSpeech(r) /\ reqs[r].pc = "failed" /\ "translate" \in CallsOf(r))
        => /\ \A c \in Conns : \A i \in DOMAIN EventsOf(c, r) :
                EventsOf(c, r)[i].type # "translation"
           /\ reqs[r].senderOpen
              => EventsOf(reqs[r].ws, r) =
                   <<ErrorEvent(r, "Failed to process speech")>>
           /\ \A c \in Conns \ {reqs[r].ws} : EventsOf(c, r) = <<>>
           /\ "store" \notin CallsOf(r) => RowsOf(r) = {}

\* the translate call of a speech event raised in a session of two open
\* members, the sender still open
C10_Witness ==
    \E r \in DOMAIN reqs :
        /\ IsSpeech(r) /\ reqs[r].pc = "failed"
        /\ CallsOf(r) = {"translate"}
        /\ reqs[r].senderOpen
        /\ Cardinality(reqs[r].atRecv.open) >= 2

(***************************************************************************)
(* C11.  Ping: the step that handles a ping frame, of a joined connection  *)
(* or not, appends one pong carrying the frame's timestamp to the events   *)
(* of the sender and nothing to those of any other connection, leaves the  *)
(* session registry and every connection's joined session as they were,    *)
(* and changes the liveness map only by setting the sender's record to the *)
(* current time.                                                           *)
(***************************************************************************)
\* this step is the handling of frame r, a frame of the given type
Handles(r, type) ==
    /\ Len(reqs) = r - 1
    /\ Len(reqs') = r
    /\ reqs'[r].type = Str(type)

C11_PingPong ==
    [][\A r \in 1..MaxReq :
         Handles(r, "ping")
         => LET ws == reqs'[r].ws IN
            /\ inbox' = [inbox EXCEPT
                           ![ws] = Append(@, Event("pong", r,
                                                   reqs'[r].data.timestamp,
                                                   Undefined, NoMessage))]
            /\ sessions' = sessions
            /\ clientSessionId' = clientSessionId
            /\ lastActivity' = MapSet(lastActivity, ws, now)]_vars

\* a ping of a connection joined to a session of two open members was answered
C11_Witness ==
    \E r \in DOMAIN reqs :
        /\ reqs[r].type = Str("ping")
        /\ reqs[r].sessionId # NoSession
        /\ Cardinality(reqs[r].atRecv.open) >= 2
        /\ Len(EventsOf(reqs[r].ws, r)) = 1

(***************************************************************************)
(* C12.  Broadcast: a step that broadcasts a payload to a session (the     *)
(* handling of a valid continuous frame, the continuation that has stored  *)
(* the message of a speech frame) appends the payload to the events of     *)
(* exactly the members of that session whose socket is open, to nobody's   *)
(* when the registry has no such session, and leaves the registry as it    *)
(* was.                                                                    *)
(***************************************************************************)
\* this step sent data to the open members of sessionId and to nobody else
SentToOpenMembers(sessionId, data) ==
    /\ sessions' = sessions
    /\ \A c \in Conns :
         inbox'[c] = IF /\ sessionId \in DOMAIN sessions
                        /\ c \in sessions[sessionId]
                        /\ readyState[c] = "open"
                     THEN Append(inbox[c], data)
                     ELSE inbox[c]

C12_BroadcastOpenMembers ==
    [][\A r \in 1..MaxReq :
         /\ (Handles(r, "continuous") /\ reqs'[r].valid)
            => SentToOpenMembers(clientSessionId[reqs'[r].ws],
                   Event("interim", r, reqs'[r].data.interimText,
                         reqs'[r].data.finalSpeakerId, NoMessage))
         /\ (r \in DOMAIN reqs /\ reqs[r].pc = "store" /\ reqs'[r].pc = "done")
            => SentToOpenMembers(reqs[r].sessionId,
                   Event("translation", r, Undefined, Undefined,
                         messages'[Len(messages')]))]_vars

\* a broadcast went to a session of which one member was open and one was not
C12_Witness ==
    \E r \in DOMAIN reqs :
        /\ reqs[r].valid /\ reqs[r].pc = "done"
        /\ IsSpeech(r) \/ IsContinuous(r)
        /\ reqs[r].atSend.open # {}
        /\ reqs[r].atSend.open # reqs[r].atSend.members
        /\ \A c \in reqs[r].atSend.members :
             Len(EventsOf(c, r)) = IF c \in reqs[r].atSend.open THEN 1 ELSE 0

(***************************************************************************)
(* C13.  Send failure in a broadcast: when the send to a member throws     *)
(* during the broadcast made for a valid continuous or speech frame, every *)
(* other open member of the session is delivered the payload, the member   *)
(* whose send threw is delivered nothing and its socket is no longer open  *)
(* (it is closing, or closed with its close handler run), the handler that *)
(* broadcast ends normally, and no connection, the sender included, is     *)
(* delivered an error event for the frame.                                 *)
(***************************************************************************)
\* frame r passed its checks and its broadcast has been made
Broadcast(r) ==
    /\ reqs[r].valid /\ reqs[r].pc = "done"
    /\ IsSpeech(r) \/ IsContinuous(r)

C13_SendFailureIsolated ==
    \A r \in DOMAIN reqs :
        (Broadcast(r) /\ reqs[r].threw # {})
        => /\ \A c \in reqs[r].atSend.open \ reqs[r].threw :
                /\ Len(EventsOf(c, r)) = 1
                /\ EventsOf(c, r)[1].type =
                     IF IsSpeech(r) THEN "translation" ELSE "interim"
           /\ \A c \in reqs[r].threw :
                /\ EventsOf(c, r) = <<>>
                /\ readyState[c] \in {"closing", "closed"}
                /\ readyState[c] = "closed" => teardown[c].close = 1
           /\ \A c \in Conns : \A i \in DOMAIN EventsOf(c, r) :
                EventsOf(c, r)[i].type # "error"

\* a broadcast in which the send to one member threw and another member,
\* the sender, was delivered the payload
C13_Witness ==
    \E r \in DOMAIN reqs :
        /\ Broadcast(r)
        /\ reqs[r].threw # {}
        /\ reqs[r].ws \in reqs[r].atSend.open \ reqs[r].threw
        /\ Len(EventsOf(reqs[r].ws, r)) = 1

(***************************************************************************)
(* C14.  Closed is final.  As claimed: once the close handler of a         *)
(* connection has run, no step persists a row or delivers an event on      *)
(* account of a frame of that connection; in particular a speech frame     *)
(* whose translate call was pending when the connection closed stores no   *)
(* message and broadcasts no translation afterwards.                       *)
(***************************************************************************)
C14_ClosedIsInert ==
    [][\A r \in DOMAIN reqs :
         readyState[reqs[r].ws] = "closed"
         => /\ RowsOf(r)' = RowsOf(r)
            /\ \A c \in Conns : EventsOf(c, r)' = EventsOf(c, r)]_vars

(***************************************************************************)
(* C15.  Liveness records: in every reachable state every connection that  *)
(* is open and a member of a session has a record in the liveness map (a   *)
(* map: one record at most), and no step, be it the handling of a frame, a *)
(* pong or a sweep of the reaper, removes the record of a connection that  *)
(* is open before the step and after it.                                   *)
(***************************************************************************)
\* the sessions that have ws as a member
SessionsOf(ws) == {s \in DOMAIN sessions : ws \in sessions[s]}

C15_OpenMemberTracked ==
    /\ [](\A c \in Conns :
            (readyState[c] = "open" /\ SessionsOf(c) # {})
            => c \in DOMAIN lastActivity)
    /\ [][\A c \in Conns :
            (readyState[c] = "open" /\ readyState'[c] = "open"
                /\ c \in DOMAIN lastActivity)
            => c \in DOMAIN lastActivity']_vars

\* an open member of a session has kept its record through a sweep
C15_Witness ==
    \E c \in Conns :
        /\ readyState[c] = "open"
        /\ SessionsOf(c) # {}
        /\ c \in DOMAIN lastActivity
        /\ lastActivity[c] < LastSweep

(***************************************************************************)
(* C16.  Broken connections: a sweep of the reaper terminates every        *)
(* tracked connection whose socket is not open, or that has no liveness    *)
(* record, when the sweep begins; after the sweep such a connection is not *)
(* open, has no liveness record and is a member of no session.             *)
(***************************************************************************)
\* this step is a sweep of the reaper
Sweeps == nextSweep' # nextSweep

C16_BrokenReaped ==
    [][Sweeps
       => \A c \in clients :
            (readyState[c] # "open" \/ c \notin DOMAIN lastActivity)
            => /\ teardown'[c].reaper >= 1
               /\ teardown[c].reaper < 2
                  => teardown'[c].reaper = teardown[c].reaper + 1
               /\ readyState'[c] # "open"
               /\ c \notin DOMAIN lastActivity'
               /\ \A s \in DOMAIN sessions' : c \notin sessions'[s]]_vars

\* a sweep has terminated a member of a session whose socket was closing
\* (not for inactivity) and taken it out of the session
C16_Witness ==
    \E c \in clients, s \in SessionIds :
        /\ teardown[c].reaper >= 1
        /\ ~teardown[c].timedOut
        /\ teardown[c].left[s] = 1
        /\ teardown[c].close = 0
        /\ SessionsOf(c) = {}

(***************************************************************************)
(* C17.  Inactivity.  As claimed: the sweep that finds a connection's      *)
(* record older than the inactivity threshold closes it gracefully and     *)
(* does no more: it does not terminate it, and leaves its liveness record  *)
(* and its session membership for the close handler to remove.             *)
(***************************************************************************)
C17_InactiveLeftToCloseHandler ==
    [][\A c \in Conns :
         (~teardown[c].timedOut /\ teardown'[c].timedOut)
         => /\ readyState'[c] = "closing"
            /\ teardown'[c].reaper = teardown[c].reaper
            /\ c \in DOMAIN lastActivity'
            /\ SessionsOf(c)' = SessionsOf(c)]_vars

(***************************************************************************)
(* C18.  Join: the step that handles a join frame whose sessionId is       *)
(* absent, empty or not a string appends one error event to the events of  *)
(* the sender and of nobody else and changes neither any connection's      *)
(* joined session nor the registry; the step that handles a join frame     *)
(* with a non-empty string sessionId makes that session the sender's       *)
(* joined session, adds the sender to its member set, and appends one join *)
(* acknowledgement carrying the sessionId to the events of the sender and  *)
(* of nobody else.                                                         *)
(***************************************************************************)
\* this step delivered data to ws and nothing to anyone else
SentTo(ws, data) == inbox' = [inbox EXCEPT ![ws] = Append(@, data)]

\* the sessionId of a join frame is a non-empty string
GoodSessionId(v) == TypeOf(v) = "string" /\ v[2] # ""

C18_JoinChecked ==
    [][\A ws \in Conns, data \in JoinFrames :
         OnMessage(ws, data)
         => LET r == Len(reqs') IN
            IF GoodSessionId(data.sessionId)
            THEN /\ clientSessionId' =
                      [clientSessionId EXCEPT ![ws] = data.sessionId[2]]
                 /\ data.sessionId[2] \in DOMAIN sessions'
                 /\ ws \in sessions'[data.sessionId[2]]
                 /\ \A s \in DOMAIN sessions :
                      s \in DOMAIN sessions' /\ sessions[s] \subseteq sessions'[s]
                 /\ SentTo(ws, Event("join", r, data.sessionId, Undefined,
                                     NoMessage))
            ELSE /\ clientSessionId' = clientSessionId
                 /\ sessions' = sessions
                 /\ SentTo(ws, ErrorEvent(r, "Invalid session ID"))]_vars

\* a joined connection has sent a join frame without a usable sessionId and
\* is still joined as before
C18_Witness ==
    \E r \in DOMAIN reqs :
        /\ IsJoin(r) /\ ~reqs[r].valid
        /\ reqs[r].sessionId # NoSession
        /\ clientSessionId[reqs[r].ws] = reqs[r].sessionId
        /\ Len(EventsOf(reqs[r].ws, r)) = 1

(***************************************************************************)
(* C19.  Protocol errors: the step that handles a frame that is not JSON,  *)
(* has no type, or has a type the relay does not know appends one error    *)
(* event to the events of the sender and of nobody else, leaves every      *)
(* socket as it was (the sender's open), changes neither any connection's  *)
(* joined session nor the registry, calls no collaborator and persists no  *)
(* row.                                                                    *)
(***************************************************************************)
C19_ProtocolError ==
    [][\A ws \in Conns, data \in MalformedFrames \cup UnknownFrames :
         OnMessage(ws, data)
         => /\ SentTo(ws, ErrorEvent(Len(reqs'),
                          IF ~data.parsed \/ Falsy(data.type)
                          THEN "Invalid message format"
                          ELSE "Unknown message type"))
            /\ readyState' = readyState
            /\ readyState'[ws] = "open"
            /\ clientSessionId' = clientSessionId
            /\ sessions' = sessions
            /\ calls' = calls
            /\ messages' = messages]_vars

\* a joined connection has sent a frame of an unknown type, and is open and
\* joined as before
C19_Witness ==
    \E r \in DOMAIN reqs :
        /\ reqs[r].type = Str("leave")
        /\ reqs[r].sessionId # NoSession
        /\ clientSessionId[reqs[r].ws] = reqs[r].sessionId
        /\ readyState[reqs[r].ws] = "open"
        /\ Len(EventsOf(reqs[r].ws, r)) = 1

(***************************************************************************)
(* C20.  One error per failed request: a frame that failed (it was         *)
(* malformed, of an unknown type, lacked a field, came from a connection   *)
(* that had not joined, or a collaborator raised while it was handled),    *)
(* and whose connection was open when the failure was reported, has caused *)
(* exactly one event to be delivered to that connection, an error event:   *)
(* never none and never two.                                               *)
(***************************************************************************)
\* the handling of frame r ended in a failure
Failed(r) == ~reqs[r].valid \/ reqs[r].pc = "failed"

C20_OneErrorPerFailure ==
    \A r \in DOMAIN reqs :
        (Failed(r) /\ reqs[r].senderOpen)
        => /\ Len(EventsOf(reqs[r].ws, r)) = 1
           /\ EventsOf(reqs[r].ws, r)[1].type = "error"

\* one connection has had a frame rejected on arrival and, later, a speech
\* frame fail in a collaborator, and was told of each once
C20_Witness ==
    \E r1, r2 \in DOMAIN reqs :
        /\ reqs[r1].ws = reqs[r2].ws
        /\ ~reqs[r1].valid
        /\ IsSpeech(r2) /\ reqs[r2].valid /\ reqs[r2].pc = "failed"
        /\ reqs[r2].senderOpen
        /\ Len(EventsOf(reqs[r1].ws, r1)) = 1
        /\ Len(EventsOf(reqs[r2].ws, r2)) = 1


(***************************************************************************)
(* C21.  The error event of a failed request is the next event its         *)
(* connection receives after the request.  Checked in the part that the    *)
(* inboxes record: in the inbox of the connection of a failed frame, no    *)
(* event caused by a frame that arrived after the failed one stands before *)
(* the error event of the failed one.                                      *)
(***************************************************************************)
C21_ErrorIsNextEvent ==
    \A r \in DOMAIN reqs :
        Failed(r)
        => \A i, j \in DOMAIN inbox[reqs[r].ws] :
              /\ inbox[reqs[r].ws][j].req = r
              /\ inbox[reqs[r].ws][j].type = "error"
              /\ i < j
              => inbox[reqs[r].ws][i].req <= r

(***************************************************************************)
(* C22.  No error is sticky.  A step that rejects a frame, and every step  *)
(* of the handling of a speech frame that ends in the inner catch, leaves  *)
(* the joined session of every connection, every member set, every         *)
(* readyState and the stored rows as they were; and every frame, whatever  *)
(* failed before it, is handled with the session of the last valid join of *)
(* its connection (none if it has made none).                              *)
(***************************************************************************)
\* this step rejects a frame, or is the inner catch of a speech frame
Fails ==
    \/ Len(reqs') = Len(reqs) + 1 /\ ~reqs'[Len(reqs')].valid
    \/ \E r \in DOMAIN reqs : reqs[r].pc # "failed" /\ reqs'[r].pc = "failed"

\* the session of the last valid join that ws sent before frame r
LastJoined(ws, r) ==
    LET J == {q \in 1..(r - 1) :
                 IsJoin(q) /\ reqs[q].valid /\ reqs[q].ws = ws}
    IN  IF J = {} THEN NoSession
        ELSE reqs[CHOOSE q \in J : \A p \in J : p <= q].data.sessionId[2]

C22_NoStickyError ==
    /\ [](\A r \in DOMAIN reqs : reqs[r].sessionId = LastJoined(reqs[r].ws, r))
    /\ [][Fails => UNCHANGED <<clientSessionId, sessions, readyState,
                               messages>>]_vars

\* a connection has joined, has had a frame fail with an error event, and
\* has then had an interim transcript relayed to its session
C22_Witness ==
    \E r0, r1, r2 \in DOMAIN reqs :
        /\ r0 < r1 /\ r1 < r2
        /\ reqs[r0].ws = reqs[r1].ws /\ reqs[r1].ws = reqs[r2].ws
        /\ IsJoin(r0) /\ reqs[r0].valid
        /\ Failed(r1)
        /\ Len(EventsOf(reqs[r1].ws, r1)) = 1
        /\ IsContinuous(r2) /\ reqs[r2].valid
        /\ reqs[r2].sessionId = reqs[r0].data.sessionId[2]
        /\ Len(EventsOf(reqs[r2].ws, r2)) = 1

(***************************************************************************)
(* C23.  A failure of the detect call does not fail the request: for a     *)
(* valid speech frame without a language, once the awaited detection has   *)
(* ended, whether it returned or raised, translate has been called; and    *)
(* when the handler then runs to its end, the translation was broadcast    *)
(* and no error event was sent for the frame.                              *)
(***************************************************************************)
C23_DetectFailureTolerated ==
    \A r \in DOMAIN reqs :
        (/\ IsSpeech(r) /\ reqs[r].valid
         /\ Falsy(reqs[r].data.language)
         /\ "detect" \in CallsOf(r)
         /\ reqs[r].pc # "detect")
        => /\ "translate" \in CallsOf(r)
           /\ reqs[r].pc = "done"
              => /\ Cardinality(RowsOf(r)) = 1
                 /\ \A c \in Conns : \A i \in DOMAIN EventsOf(c, r) :
                       EventsOf(c, r)[i].type = "translation"

(***************************************************************************)
(* C24.  Handling a frame never shrinks a session: a step of the message   *)
(* listener (the arrival of a frame or the continuation of a speech frame) *)
(* keeps every session entry and every member of every member set; a step  *)
(* after which an entry or a member is missing is a run of the reaper or   *)
(* the close handler of a connection.                                      *)
(***************************************************************************)
\* every entry and every member of the registry is still there after the step
SessionsKept ==
    \A s \in DOMAIN sessions :
        s \in DOMAIN sessions' /\ sessions[s] \subseteq sessions'[s]

\* this step is the close handler of a connection
Closes == \E c \in Conns : readyState[c] # "closed" /\ readyState'[c] = "closed"

C24_FramesKeepMembers ==
    [][/\ (reqs' # reqs => SessionsKept)
       /\ (~SessionsKept => Sweeps \/ Closes)]_vars

\* a connection has joined a second session and is still a member of the first
C24_Witness ==
    \E c \in Conns, r \in DOMAIN reqs :
        /\ IsJoin(r) /\ reqs[r].valid /\ reqs[r].ws = c
        /\ reqs[r].sessionId \in SessionIds
        /\ reqs[r].sessionId # clientSessionId[c]
        /\ reqs[r].sessionId \in DOMAIN sessions
        /\ c \in sessions[reqs[r].sessionId]
        /\ clientSessionId[c] \in DOMAIN sessions
        /\ c \in sessions[clientSessionId[c]]

(***************************************************************************)
(* C25.  One order for all clients: when two connections have each been    *)
(* delivered the broadcasts of the same two frames, the two events stand   *)
(* in the same order in both inboxes, however the awaited calls of the     *)
(* senders interleave.                                                     *)
(***************************************************************************)
\* the places of inbox c that hold an event broadcast for frame r
Places(c, r) ==
    {i \in DOMAIN inbox[c] :
        inbox[c][i].req = r /\ inbox[c][i].type \in {"translation", "interim"}}

C25_OneOrder ==
    \A c1, c2 \in Conns : \A r1, r2 \in DOMAIN reqs :
        \A i1 \in Places(c1, r1), i2 \in Places(c1, r2),
           j1 \in Places(c2, r1), j2 \in Places(c2, r2) :
            (i1 < i2) <=> (j1 < j2)

\* two connections have each been delivered the broadcasts of two frames of
\* two senders, the broadcast of the later frame first
C25_Witness ==
    \E r1, r2 \in DOMAIN reqs :
        /\ r1 < r2
        /\ reqs[r1].ws # reqs[r2].ws
        /\ \A c \in {reqs[r1].ws, reqs[r2].ws} :
              \E i1 \in Places(c, r1), i2 \in Places(c, r2) : i2 < i1

(***************************************************************************)
(* C26.  Membership changes during a pending speech request are tolerated: *)
(* once the row of a speech frame is stored, its handler has ended without *)
(* an error event, and the translation event has been delivered, once, to  *)
(* exactly the members of the sender's session that were open at the       *)
(* broadcast, whoever joined or left it, and even if it was deleted, since *)
(* the frame arrived.                                                      *)
(***************************************************************************)
C26_MembershipChangeTolerated ==
    \A r \in DOMAIN reqs :
        (IsSpeech(r) /\ RowsOf(r) # {})
        => /\ reqs[r].pc = "done"
           /\ \A c \in Conns :
                IF c \in reqs[r].atSend.open
                THEN /\ Len(EventsOf(c, r)) = 1
                     /\ EventsOf(c, r)[1].type = "translation"
                ELSE EventsOf(c, r) = <<>>

\* while the translate or store call of a speech frame was pending, its
\* sender has left the session and another connection has joined it, and the
\* translation was delivered to the one that joined
C26_Witness ==
    \E r \in DOMAIN reqs, c \in Conns :
        /\ IsSpeech(r) /\ reqs[r].valid /\ RowsOf(r) # {}
        /\ reqs[r].ws \in reqs[r].atRecv.members
        /\ reqs[r].ws \notin reqs[r].atSend.members
        /\ c \notin reqs[r].atRecv.members
        /\ c \in reqs[r].atSend.open
        /\ Len(EventsOf(c, r)) = 1

(***************************************************************************)
(* C27.  The client drops interim transcripts under backlog: when the      *)
(* socket is not open and more than 5 messages are pending, a call of      *)
(* sendContinuousSpeech leaves the queue as it is, while a call of         *)
(* sendSpeech appends its message to the queue.                            *)
(***************************************************************************)
C27_InterimDropped ==
    [][(~SocketOpen /\ Len(pendingMessages) > DropThreshold)
       => /\ \A ok \in BOOLEAN :
                SendContinuousSpeech(ok)
                => pendingMessages' = pendingMessages
          /\ \A ok \in BOOLEAN :
                SendSpeech(ok)
                => pendingMessages' =
                     Append(pendingMessages,
                            [message |-> "speech", attempts |-> 0])]_vars

(***************************************************************************)
(* C28.  The client's queue is bounded: while the socket is not open, no   *)
(* sequence of sendSpeech and sendContinuousSpeech calls makes the queue   *)
(* longer than the length up to which the drop rule admits a message.      *)
(***************************************************************************)
C28_QueueBounded ==
    ~SocketOpen => Len(pendingMessages) <= DropThreshold + 1

(***************************************************************************)
(* C29.  No de-duplication of speech: every valid speech frame whose       *)
(* handler has run to its end has a stored row of its own, with an id that *)
(* no other row has, and its own translation event, carrying that row, in  *)
(* the inbox of each member that was open at its broadcast; a frame equal  *)
(* to an earlier one of the same connection is no exception.               *)
(***************************************************************************)
C29_NoDedup ==
    \A r \in DOMAIN reqs :
        (IsSpeech(r) /\ reqs[r].valid /\ reqs[r].pc = "done")
        => /\ Cardinality(RowsOf(r)) = 1
           /\ \A i \in RowsOf(r) : \A j \in DOMAIN messages :
                 messages[i].id = messages[j].id => i = j
           /\ \A c \in reqs[r].atSend.open : \A i \in RowsOf(r) :
                 /\ Len(EventsOf(c, r)) = 1
                 /\ EventsOf(c, r)[1].type = "translation"
                 /\ EventsOf(c, r)[1].message = messages[i]

\* a connection has sent the same valid speech frame twice, and both have
\* been stored and broadcast to it
C29_Witness ==
    \E r1, r2 \in DOMAIN reqs :
        /\ r1 < r2
        /\ IsSpeech(r1) /\ reqs[r1].valid /\ reqs[r1].pc = "done"
        /\ IsSpeech(r2) /\ reqs[r2].valid /\ reqs[r2].pc = "done"
        /\ reqs[r1].ws = reqs[r2].ws
        /\ reqs[r1].data = reqs[r2].data
        /\ reqs[r1].sessionId = reqs[r2].sessionId
        /\ Len(EventsOf(reqs[r1].ws, r1)) = 1
        /\ Len(EventsOf(reqs[r2].ws, r2)) = 1
        /\ Len(messages) = 2

(***************************************************************************)
(* C30.  Server shutdown cancels every periodic timer: once httpServer has *)
(* emitted 'close', the reaper's sweep timer is not scheduled and no       *)
(* connection's ping timer is scheduled.                                   *)
(***************************************************************************)
C30_NoTimerAfterServerClose ==
    serverClosed => /\ ~cleanupInterval
                    /\ \A c \in Conns : ~pingInterval[c]

(***************************************************************************)
(* C31.  A connection is a member of at most one session: in every state   *)
(* each connection is in the member set of one session at most, the one it *)
(* joined last.                                                            *)
(***************************************************************************)
C31_AtMostOneSession ==
    \A c \in Conns :
        /\ Cardinality(SessionsOf(c)) <= 1
        /\ \A s \in SessionsOf(c) : clientSessionId[c] = s

(***************************************************************************)
(* C32.  Session isolation: a translation or interim event caused by a     *)
(* speech or continuous frame of a connection joined to session s is in    *)
(* the inbox of a connection only if that connection was in the member set *)
(* of s at the broadcast, and so only if it has sent a valid join for s.   *)
(***************************************************************************)
C32_SessionIsolation ==
    \A r \in DOMAIN reqs : \A c \in Conns :
        ((IsSpeech(r) \/ IsContinuous(r)) /\ Places(c, r) # {})
        => /\ reqs[r].valid
           /\ c \in reqs[r].atSend.members
           /\ c \in EverJoined(reqs[r].sessionId)

\* an interim or translation event of a frame of one session has reached its
\* sender while an open connection joined to the other session got nothing
C32_Witness ==
    \E r \in DOMAIN reqs, c \in Conns :
        /\ IsSpeech(r) \/ IsContinuous(r)
        /\ Places(reqs[r].ws, r) # {}
        /\ readyState[c] = "open"
        /\ clientSessionId[c] \in SessionIds \ {reqs[r].sessionId}
        /\ c \notin reqs[r].atSend.members
        /\ EventsOf(c, r) = <<>>
        /\ \E q \in DOMAIN reqs : q < r /\ reqs[q].ws = c /\ IsJoin(q)

(***************************************************************************)
(* C33.  The session of a speech request is fixed when its frame arrives:  *)
(* the stored row carries the session of the sender's last valid join      *)
(* before the frame, and the translation event reaches only connections    *)
(* that have joined that session, whatever session the sender has joined   *)
(* while its translate or store call was pending.                          *)
(***************************************************************************)
C33_SessionFixedAtArrival ==
    \A r \in DOMAIN reqs :
        (IsSpeech(r) /\ reqs[r].valid)
        => /\ \A i \in RowsOf(r) :
                 messages[i].sessionId = LastJoined(reqs[r].ws, r)
           /\ \A c \in Conns :
                 Places(c, r) # {} => c \in EverJoined(LastJoined(reqs[r].ws, r))
           /\ reqs[r].pc = "done"
              => \A c \in Conns :
                    (c \in Members(LastJoined(reqs[r].ws, r))
                       /\ c \in reqs[r].atSend.open)
                    => Places(c, r) # {}

\* a sender joined another session while its speech frame was pending (the
\* acknowledgement of the join stands before the translation in its inbox);
\* the row carries the first session, and an open member of the other
\* session, which never joined the first, was sent nothing
C33_Witness ==
    \E r, q \in DOMAIN reqs, b \in Conns :
        /\ r < q /\ reqs[q].ws = reqs[r].ws
        /\ IsSpeech(r) /\ reqs[r].pc = "done" /\ RowsOf(r) # {}
        /\ IsJoin(q) /\ reqs[q].valid
        /\ reqs[q].data.sessionId # Str(reqs[r].sessionId)
        /\ \E i, j \in DOMAIN inbox[reqs[r].ws] :
              /\ i < j
              /\ inbox[reqs[r].ws][i].req = q
              /\ inbox[reqs[r].ws][j].req = r
        /\ \A i \in RowsOf(r) : messages[i].sessionId = reqs[r].sessionId
        /\ b # reqs[r].ws
        /\ readyState[b] = "open"
        /\ Str(clientSessionId[b]) = reqs[q].data.sessionId
        /\ b \notin EverJoined(reqs[r].sessionId)
        /\ EventsOf(b, r) = <<>>

(***************************************************************************)
(* C34.  A 'speech' or 'continuous' frame from a connection that has not   *)
(* joined a session is answered with one error event, "Not joined to a     *)
(* session", appended to the sender's inbox; the step delivers nothing to  *)
(* any other connection, makes no detect, translate or storage call,       *)
(* stores no row, leaves no continuation pending, and leaves the sender    *)
(* unjoined and every member set as it was.                                *)
(***************************************************************************)
C34_UnjoinedRejected ==
    [][\A ws \in Conns, data \in SpeechFrames \cup ContinuousFrames :
         (OnMessage(ws, data) /\ clientSessionId[ws] = NoSession)
         => /\ SentTo(ws, ErrorEvent(Len(reqs'), "Not joined to a session"))
            /\ calls' = calls
            /\ messages' = messages
            /\ reqs'[Len(reqs')].pc = "done"
            /\ ~reqs'[Len(reqs')].valid
            /\ clientSessionId'[ws] = NoSession
            /\ clientSessionId' = clientSessionId
            /\ sessions' = sessions]_vars

\* an unjoined connection has sent a speech or continuous frame and has been
\* answered with the one error, while another connection, open and joined,
\* has been sent nothing for it; the sender is unjoined still
C34_Witness ==
    \E r \in DOMAIN reqs, c \in Conns :
        /\ IsSpeech(r) \/ IsContinuous(r)
        /\ reqs[r].sessionId = NoSession
        /\ clientSessionId[reqs[r].ws] = NoSession
        /\ EventsOf(reqs[r].ws, r)
             = <<ErrorEvent(r, "Not joined to a session")>>
        /\ CallsOf(r) = {} /\ RowsOf(r) = {}
        /\ c # reqs[r].ws
        /\ readyState[c] = "open"
        /\ clientSessionId[c] # NoSession
        /\ EventsOf(c, r) = <<>>
        /\ \E q \in DOMAIN reqs : q < r /\ reqs[q].ws = c /\ IsJoin(q)
(***************************************************************************)
(* C35.  Keep-alive: a sweep of the reaper leaves alone every connection   *)
(* that is open when the sweep begins and has answered every ping the      *)
(* server has sent it so far, whether or not it ever sent a frame: the age *)
(* of its liveness record is not above INACTIVE_TIMEOUT, and after the     *)
(* sweep it is open, has its record and its memberships, and no teardown   *)
(* by the reaper is counted for it.                                        *)
(***************************************************************************)
C35_PongKeepsAlive ==
    [][\A ws \in Conns :
         (Sweeps /\ readyState[ws] = "open" /\ ws \notin pinged)
         => /\ ws \in DOMAIN lastActivity
            /\ now - lastActivity[ws] <= INACTIVE_TIMEOUT
            /\ readyState'[ws] = "open"
            /\ ws \in DOMAIN lastActivity'
            /\ SessionsOf(ws)' = SessionsOf(ws)
            /\ teardown'[ws] = teardown[ws]]_vars

\* a connection that has sent no frame is open after the last sweep of the
\* behaviour, more than INACTIVE_TIMEOUT after it was accepted, with every
\* ping it was sent answered, the last less than a ping period ago, while a
\* connection that did not answer was closed for inactivity
C35_Witness ==
    \E ws \in Conns, c \in Conns :
        /\ \A r \in DOMAIN reqs : reqs[r].ws # ws
        /\ now = TimedMaxTicks * FineStep
        /\ now > INACTIVE_TIMEOUT
        /\ LastSweep = now
        /\ readyState[ws] = "open"
        /\ ws \notin pinged
        /\ now - lastActivity[ws] < PingPeriod
        /\ ~teardown[ws].timedOut
        /\ teardown[c].timedOut
(***************************************************************************)
(* C36.  The pending-message processor: in every state only the oldest     *)
(* queued message has failed sends counted against it, and fewer than      *)
(* maxSendAttempts of them; a cycle of the processor calls ws.send once,    *)
(* for the oldest message, and leaves the others as they are; when the     *)
(* send returns, that message and no other leaves the queue and onError is *)
(* not called; when it throws for the third time the message leaves the    *)
(* queue and onError is called once; when it throws before that, the       *)
(* message stays at the head with one more failure counted.                *)
(***************************************************************************)
C36_OldestThreeAttempts ==
    /\ [](\A i \in DOMAIN pendingMessages :
            /\ pendingMessages[i].attempts < maxSendAttempts
            /\ i > 1 => pendingMessages[i].attempts = 0)
    /\ [][\A ok \in BOOLEAN :
            ProcessMessages(ok)
            => LET nextMessage == pendingMessages[1]
                   third == nextMessage.attempts = maxSendAttempts - 1
               IN  /\ called'[1] = Send("processMessages",
                                        nextMessage.message, ok)
                   /\ \A k \in DOMAIN called' :
                         called'[k].fn = "send" => k = 1
                   /\ ok => /\ pendingMessages' = Tail(pendingMessages)
                            /\ Len(called') = 1
                   /\ (~ok /\ third)
                      => /\ pendingMessages' = Tail(pendingMessages)
                         /\ Len(called') = 2
                         /\ called'[2].fn = "onError"
                   /\ (~ok /\ ~third)
                      => /\ pendingMessages' =
                              <<[nextMessage EXCEPT !.attempts = @ + 1]>>
                              \o Tail(pendingMessages)
                         /\ Len(called') = 1]_vars

\* the send of the oldest message has just thrown for the third time: the
\* message is gone from the queue, onError has been called, and the
\* messages behind it wait with no failure counted
C36_Witness ==
    /\ Len(called) = 2
    /\ called[1].by = "processMessages" /\ called[1].fn = "send"
    /\ ~called[1].ok
    /\ called[2].fn = "onError"
    /\ Len(pendingMessages) >= 2
    /\ \A i \in DOMAIN pendingMessages : pendingMessages[i].attempts = 0
    /\ SocketOpen
(***************************************************************************)
(* C37.  Submission order: when sendMessage has handed its message to the  *)
(* socket, no message is waiting in the pending queue (every message in    *)
(* the queue was submitted before the one just sent, and the send leaves   *)
(* the queue as it was).                                                   *)
(***************************************************************************)
C37_SubmissionOrder ==
    (/\ called # <<>>
     /\ called[1].by = "sendMessage"
     /\ called[1].fn = "send"
     /\ called[1].ok)
    => pendingMessages = <<>>
C39_SuccessorStable ==
    [][(SocketOpen /\ isConnected)
       => \/ /\ wsRef' = wsRef
             /\ sock'[wsRef] = "open"
             /\ isConnected'
          \/ sock'[wsRef] = "closed"]_vars
=============================================================================
